---- MODULE Spec2Model ----
(***************************************************************************)
(* A model of Horisation's tabular core: the formatting pipeline of        *)
(* Backend/Functions/csv_cleaner.py and Backend/Controller/csv_handling.py,*)
(* the CSV reader and type inference of Backend/Functions/csv_processor.py *)
(* and the column-name normaliser.                                         *)
(*                                                                         *)
(* Text is a sequence of one-character strings, so that the character      *)
(* level operations of the code (strip, upper, regular expressions,        *)
(* numeric parsing) are computed and not assumed.  A cell is a record      *)
(* [k, s, n]: k is the kind of the Python object in the frame, s its text  *)
(* (kind "text"), n its number (kinds "int", "bool": the integer; kind     *)
(* "float": the value in hundredths).                                      *)
(***************************************************************************)
EXTENDS Integers, Sequences, FiniteSets, TLC

VARIABLES
    \* ---- formatting pipeline ----
    src,        \* the DataFrame object the caller passed (and still holds)
    src0,       \* its value when formatting was called
    df,         \* the frame formatting works on
    mapping,    \* the job list
    ji,         \* 1-based index of the next job of the list
    pstatus,    \* "idle", "running", "returned", "raised"
    impl,       \* "CSVCleaner" or "csv_handling": which formatting runs
    presult,    \* the returned frame (NoTable until formatting returns)
    \* ---- read_with_encoding_fallback ----
    binary,     \* the bytes of the file
    sep_arg,    \* the sep argument: <<>> for None, else <<separator>>
    enc_arg,    \* the encoding argument: <<>> for None, else <<encoding>>
    use_pyarrow,\* the module flag _USE_PYARROW: whether pyarrow can be imported
    rphase,     \* "idle", "start", "explicit", "utf8", "local", "latin1",
                \* "returned", "raised"
    ri,         \* 1-based index in the list of encodings of the phase
    tried,      \* the encodings read_csv was called with, in order
    used,       \* the encoding of the call that returned ("" until then)
    rresult,    \* the returned frame
    \* ---- clean_column_names ----
    ncolumns,   \* df.columns of the frame passed to the current call
    ncase,      \* the case argument ("" for None)
    nstrip,     \* the strip_special argument
    normalised, \* the list of names built by the loop
    nstatus,    \* "idle", "running", "returned"
    napplied,   \* how many applications have returned
    nonce,      \* the columns after the first application
    nresult,    \* the columns of the frame returned last
    \* ---- _infer_column_types ----
    idf,        \* the frame passed
    idf0,       \* its value at the call
    dtypes,     \* the types found so far, in the order of df.columns
    istatus,    \* "idle", "running", "returned"
    \* ---- combine_df ----
    df1,        \* the first frame passed
    df2,        \* the second frame passed
    cmapping,   \* mapping[0]: [method, on], on being <<>> when the key is absent
    ca,         \* the working copy a of df1
    cb,         \* the working copy b of df2
    cstatus,    \* "idle", "called", "joining", "returned", "raised"
    cresult,    \* the returned frame (NoTable until then, and for None)
    \* ---- write_diff_report ----
    ddf1,       \* the first frame passed
    ddf2,       \* the second frame passed
    selected,   \* m.get('columns') or []
    target_cols,\* the columns compared
    dc,         \* 1-based index of the column of the outer loop
    dr,         \* the row r of the inner loop (0-based)
    diffs,      \* the list diffs
    fills,      \* the cells of the second sheet given a fill: <<row, column, colour>>
    sheets,     \* the names of the sheets of the workbook file
    dstatus,    \* "idle", "written", "comparing", "saved", "returned", "raised"
    \* ---- get_preview ----
    pv_binary,  \* the bytes passed (of a delimited text)
    pv_book,    \* the sheet the bytes hold, as a frame (of a spreadsheet)
    pv_name,    \* the filename argument
    pv_n,       \* the argument n
    pv_pyarrow, \* the flag use_pyarrow
    pv_openpyxl,\* the flag has_openpyxl
    pv_i,       \* 1-based index of the next encoding to try
    pv_phase,   \* "idle", "reading", "read", "returned", "raised"
    pv_df,      \* the frame read
    pv_head,    \* the dict returned: [columns, rows]
    \* ---- the loop over the mapping entries of the diff functions ----
    bt_mode,    \* "report" (write_diff_report) or "highlight" (diff_highlight)
    bt_df1,     \* the frame df1
    bt_df2,     \* the frame df2
    bt_mapping, \* the list of entries: [columns, out_file]
    bt_locked,  \* the paths that cannot be written
    bt_m,       \* 1-based index of the entry of the iteration
    bt_pc,      \* "entry", "written", "validated", "returned", "raised"
    bt_error,   \* the exception raised, "" if none
    bt_files,   \* the files on disk: path -> sheet names, <<>> if absent
    \* ---- UserManager: the two JSON files and the requests using them ----
    um_users,    \* users.json: username -> [password, role, is_active, last_login, memos]
    um_sessions, \* sessions.json: token -> [username, expires_at]
    um_now,      \* datetime.now(), in units of the clock
    um_tokens,   \* the number of tokens drawn from secrets.token_urlsafe
    um_ret,      \* the last call and what it returned: [op, arg, value]
    th_req,      \* thread -> the request it serves
    th_pc,       \* thread -> "start", "loaded", "done"
    th_users,    \* thread -> the dict its _load_users() returned
    th_ok,       \* thread -> the request reported success
    \* ---- NotesManager: the notes file of each user ----
    nt_files,   \* username -> [notes, categories], for the users that have a file
    nt_ids,     \* the number of note ids drawn from uuid4
    nt_ret      \* the last call and whether it succeeded: [op, ok]

pipeVars == <<src, src0, df, mapping, ji, pstatus, impl, presult>>

resVars == <<binary, sep_arg, enc_arg, use_pyarrow, rphase, ri, tried, used, rresult>>

nameVars == <<ncolumns, ncase, nstrip, normalised, nstatus, napplied, nonce, nresult>>

inferVars == <<idf, idf0, dtypes, istatus>>

combVars == <<df1, df2, cmapping, ca, cb, cstatus, cresult>>

diffVars == <<ddf1, ddf2, selected, target_cols, dc, dr, diffs, fills, sheets, dstatus>>

previewVars == <<pv_binary, pv_book, pv_name, pv_n, pv_pyarrow, pv_openpyxl, pv_i, pv_phase, pv_df, pv_head>>

batchVars == <<bt_mode, bt_df1, bt_df2, bt_mapping, bt_locked, bt_m, bt_pc, bt_error, bt_files>>

umVars == <<um_users, um_sessions, um_now, um_tokens, um_ret, th_req, th_pc, th_users, th_ok>>

notesVars == <<nt_files, nt_ids, nt_ret>>

vars == <<pipeVars, resVars, nameVars, inferVars, combVars, diffVars, previewVars, batchVars, umVars, notesVars>>

-----------------------------------------------------------------------------
(* Characters and text *)

Digits == <<"0", "1", "2", "3", "4", "5", "6", "7", "8", "9">>

LowerLetters ==
    <<"a", "b", "c", "d", "e", "f", "g", "h", "i", "j", "k", "l", "m",
      "n", "o", "p", "q", "r", "s", "t", "u", "v", "w", "x", "y", "z">>

UpperLetters ==
    <<"A", "B", "C", "D", "E", "F", "G", "H", "I", "J", "K", "L", "M",
      "N", "O", "P", "Q", "R", "S", "T", "U", "V", "W", "X", "Y", "Z">>

Range(f) == {f[i] : i \in DOMAIN f}

IsDigit(c) == c \in Range(Digits)

IsSpace(c) == c \in {" ", "\t"}

IndexIn(seq, c) == CHOOSE i \in DOMAIN seq : seq[i] = c

DigitVal(c) == IndexIn(Digits, c) - 1

\* str.upper / str.lower on one ASCII character
UpperChar(c) == IF c \in Range(LowerLetters) THEN UpperLetters[IndexIn(LowerLetters, c)] ELSE c

LowerChar(c) == IF c \in Range(UpperLetters) THEN LowerLetters[IndexIn(UpperLetters, c)] ELSE c

MapSeq(s, Op(_)) == [i \in DOMAIN s |-> Op(s[i])]

RECURSIVE LStrip(_)
LStrip(s) == IF s # <<>> /\ IsSpace(s[1]) THEN LStrip(Tail(s)) ELSE s

RECURSIVE RStrip(_)
RStrip(s) ==
    IF s # <<>> /\ IsSpace(s[Len(s)]) THEN RStrip(SubSeq(s, 1, Len(s) - 1)) ELSE s

\* str.strip()
Strip(s) == RStrip(LStrip(s))

\* value of a sequence of decimal digits
RECURSIVE DigitsVal(_)
DigitsVal(s) ==
    IF s = <<>> THEN 0 ELSE 10 * DigitsVal(SubSeq(s, 1, Len(s) - 1)) + DigitVal(s[Len(s)])

\* decimal digits of a natural number
RECURSIVE NatText(_)
NatText(n) == IF n < 10 THEN <<Digits[n + 1]>> ELSE NatText(n \div 10) \o <<Digits[(n % 10) + 1]>>

IntText(n) == IF n < 0 THEN <<"-">> \o NatText(-n) ELSE NatText(n)

Abs(n) == IF n < 0 THEN -n ELSE n

\* repr of a Python float whose value is h hundredths: 150.0, 12.5, 1.25
FracText(frac) ==
    IF frac % 10 = 0 THEN <<Digits[(frac \div 10) + 1]>>
    ELSE <<Digits[(frac \div 10) + 1], Digits[(frac % 10) + 1]>>

FloatText(h) ==
    (IF h < 0 THEN <<"-">> ELSE <<>>) \o NatText(Abs(h) \div 100) \o <<".">> \o FracText(Abs(h) % 100)

-----------------------------------------------------------------------------
(* Cells *)

NaN == [k |-> "nan", s |-> <<>>, n |-> 0]       \* float("nan") / np.nan

NA == [k |-> "na", s |-> <<>>, n |-> 0]         \* pd.NA

TextCell(t) == [k |-> "text", s |-> t, n |-> 0]

IntCell(i) == [k |-> "int", s |-> <<>>, n |-> i]

FloatCell(h) == [k |-> "float", s |-> <<>>, n |-> h]

BoolCell(b) == [k |-> "bool", s |-> <<>>, n |-> IF b THEN 1 ELSE 0]

\* pd.isna
NoneCell == [k |-> "none", s |-> <<>>, n |-> 0]  \* None in an object column

IsNull(c) == c.k \in {"nan", "na", "none"}

-----------------------------------------------------------------------------
(* pd.to_numeric(series, errors="coerce") *)

AllDigits(s) == s # <<>> /\ \A i \in DOMAIN s : IsDigit(s[i])

DotAt(s) == IF \E i \in DOMAIN s : s[i] = "." THEN CHOOSE i \in DOMAIN s : s[i] = "." ELSE 0

\* One string: an optional sign, digits, an optional fraction of one or two
\* digits (the values of the model are hundredths); anything else is NaN.
ParseFraction(ip, fp) ==
    IF AllDigits(ip) /\ AllDigits(fp) /\ Len(fp) <= 2
    THEN FloatCell(100 * DigitsVal(ip)
                   + (IF Len(fp) = 1 THEN 10 * DigitsVal(fp) ELSE DigitsVal(fp)))
    ELSE NaN

ParseUnsigned(u, d) ==
    IF d # 0 THEN ParseFraction(SubSeq(u, 1, d - 1), SubSeq(u, d + 1, Len(u)))
    ELSE IF AllDigits(u) THEN IntCell(DigitsVal(u))
    ELSE NaN

Negate(c) == IF c.k = "nan" THEN c ELSE [c EXCEPT !.n = -@]

ParseSigned(t) ==
    IF t # <<>> /\ t[1] = "-" THEN Negate(ParseUnsigned(Tail(t), DotAt(Tail(t))))
    ELSE ParseUnsigned(t, DotAt(t))

ParseNumber(s) == ParseSigned(Strip(s))

\* One element of an object column
NumericOf(c) ==
    CASE c.k = "text" -> ParseNumber(c.s)
      [] c.k = "int" -> c
      [] c.k = "bool" -> IntCell(c.n)
      [] c.k = "float" -> c
      [] OTHER -> NaN

\* The whole column: int64 when every element is an integer, float64 (with
\* NaN for what does not parse) otherwise.
UnifyDtype(p) ==
    IF \A i \in DOMAIN p : p[i].k = "int" THEN p
    ELSE [i \in DOMAIN p |-> IF p[i].k = "int" THEN FloatCell(100 * p[i].n) ELSE p[i]]

to_numeric(series) == UnifyDtype([i \in DOMAIN series |-> NumericOf(series[i])])

\* numpy's round half to even of h hundredths to `decimals` places
RoundUnits(q, r, unit) ==
    (IF (2 * r > unit) \/ (2 * r = unit /\ q % 2 = 1) THEN q + 1 ELSE q) * unit

RoundAbs(a, unit) == RoundUnits(a \div unit, a % unit, unit)

RoundHalfEven(h, decimals) ==
    IF decimals >= 2 THEN h
    ELSE IF h < 0 THEN -RoundAbs(-h, IF decimals = 1 THEN 10 ELSE 100)
    ELSE RoundAbs(h, IF decimals = 1 THEN 10 ELSE 100)

\* Series.round(decimals): an int64 column is left as it is
RoundSeries(numeric, decimals) ==
    [i \in DOMAIN numeric |->
        IF numeric[i].k = "float" THEN FloatCell(RoundHalfEven(numeric[i].n, decimals))
        ELSE numeric[i]]

\* str(x) of one element, as Series.astype(str) computes it
StrOf(c) ==
    CASE c.k = "text" -> c.s
      [] c.k = "int" -> IntText(c.n)
      [] c.k = "float" -> FloatText(c.n)
      [] c.k = "bool" -> IF c.n = 1 THEN <<"T", "r", "u", "e">> ELSE <<"F", "a", "l", "s", "e">>
      [] c.k = "nan" -> <<"n", "a", "n">>
      [] c.k = "none" -> <<"N", "o", "n", "e">>
      [] OTHER -> <<"<", "N", "A", ">">>

-----------------------------------------------------------------------------
(* The transforms of formatting.  Each returns [ok, col]: ok is FALSE when  *)
(* the pandas call raises, and col is then not used.                        *)

Done(col) == [ok |-> TRUE, col |-> col]

Raised == [ok |-> FALSE, col |-> <<>>]

\* trans_type == 'str'
StrNormalise(st) == TextCell([j \in DOMAIN st |-> IF st[j] = " " THEN "_" ELSE st[j]])

_str_transform(series) ==
    Done([i \in DOMAIN series |-> StrNormalise(Strip(MapSeq(StrOf(series[i]), UpperChar)))])

\* trans_type == 'int': astype("Int64") refuses a float that is no integer
AsInt64(numeric) ==
    IF \E i \in DOMAIN numeric : numeric[i].k = "float" /\ numeric[i].n % 100 # 0
    THEN Raised
    ELSE Done([i \in DOMAIN numeric |->
            CASE numeric[i].k = "int" -> numeric[i]
              [] numeric[i].k = "float" -> IntCell(numeric[i].n \div 100)
              [] OTHER -> NA])

_int_transform(series) == AsInt64(to_numeric(series))

\* trans_type == 'float'
_float_transform(series, decimals) == Done(RoundSeries(to_numeric(series), decimals))

\* trans_type == 'bool': astype("boolean") of an object column takes only
\* booleans, the numbers 0 and 1 and nulls
BoolLike(c) ==
    \/ IsNull(c)
    \/ c.k = "bool"
    \/ c.k = "int" /\ c.n \in {0, 1}
    \/ c.k = "float" /\ c.n \in {0, 100}

_bool_transform(series) ==
    IF \E i \in DOMAIN series : ~BoolLike(series[i])
    THEN Raised
    ELSE Done([i \in DOMAIN series |->
            IF IsNull(series[i]) THEN NA ELSE BoolCell(series[i].n # 0)])

\* trans_type == 'percent'
Times100(numeric) ==
    [i \in DOMAIN numeric |->
        IF IsNull(numeric[i]) THEN numeric[i] ELSE [numeric[i] EXCEPT !.n = 100 * @]]

PercentText(rounded) ==
    [i \in DOMAIN rounded |->
        IF IsNull(rounded[i]) THEN NA ELSE TextCell(StrOf(rounded[i]) \o <<"%">>)]

_percent_transform(series, decimals) ==
    Done(PercentText(RoundSeries(Times100(to_numeric(series)), decimals)))

ScaleCell_mul_as_add(c, operation, factor) ==
    IF IsNull(c) THEN c ELSE [c EXCEPT !.n = @ + factor]

\* trans_type == 'scale'; a true division gives float64 (the quotient is
\* kept to the hundredth)
ScaleCell(c, operation, factor) ==
    IF IsNull(c) THEN c
    ELSE CASE operation = "mul" -> [c EXCEPT !.n = @ * factor]
           [] operation = "div" ->
                FloatCell((IF c.k = "float" THEN c.n ELSE 100 * c.n) \div factor)
           [] operation = "add" -> [c EXCEPT !.n = @ + (IF c.k = "float" THEN 100 * factor ELSE factor)]
           [] operation = "sub" -> [c EXCEPT !.n = @ - (IF c.k = "float" THEN 100 * factor ELSE factor)]
           [] OTHER -> c

ScaleSeries(numeric, operation, factor) ==
    [i \in DOMAIN numeric |-> ScaleCell(numeric[i], operation, factor)]

_scale_transform(series, operation, factor) ==
    Done(ScaleSeries(to_numeric(series), operation, factor))

-----------------------------------------------------------------------------
(* Statistics of a numeric column.  The values are taken in hundredths,    *)
(* nulls left out; a mean, a quantile or a deviation is kept to the         *)
(* hundredth, what is beyond it being cut off.                              *)

NotNull(c) == ~IsNull(c)

Hundredths(c) == IF c.k = "float" THEN c.n ELSE 100 * c.n

ValuesOf(numeric) == MapSeq(SelectSeq(numeric, NotNull), Hundredths)

RECURSIVE SumSeq(_)
SumSeq(v) == IF v = <<>> THEN 0 ELSE v[1] + SumSeq(Tail(v))

\* Series.mean()
Mean(v) == SumSeq(v) \div Len(v)

\* the k-th smallest of the values
KthSmallest(v, k) ==
    CHOOSE x \in Range(v) :
        /\ Cardinality({i \in DOMAIN v : v[i] < x}) < k
        /\ k <= Cardinality({i \in DOMAIN v : v[i] <= x})

\* Series.median()
Median(v) ==
    IF Len(v) % 2 = 1 THEN KthSmallest(v, (Len(v) + 1) \div 2)
    ELSE (KthSmallest(v, Len(v) \div 2) + KthSmallest(v, (Len(v) \div 2) + 1)) \div 2

\* Series.quantile(quarters / 4), linear interpolation between the two
\* order statistics around position (n - 1) * quarters / 4
Interpolate(lo, hi, rem) == lo + ((hi - lo) * rem) \div 4

QuantileAt(v, pos4) ==
    Interpolate(KthSmallest(v, (pos4 \div 4) + 1),
                KthSmallest(v, IF pos4 % 4 = 0 THEN (pos4 \div 4) + 1 ELSE (pos4 \div 4) + 2),
                pos4 % 4)

Quantile(v, quarters) == QuantileAt(v, (Len(v) - 1) * quarters)

\* the integer square root of n, by bisection: lo * lo <= n < hi * hi
RECURSIVE SqrtIn(_, _, _)
SqrtIn(n, lo, hi) ==
    IF hi - lo <= 1 THEN lo
    ELSE IF ((lo + hi) \div 2) * ((lo + hi) \div 2) <= n THEN SqrtIn(n, (lo + hi) \div 2, hi)
    ELSE SqrtIn(n, lo, (lo + hi) \div 2)

SquaredDeviations(v, mean) == SumSeq([i \in DOMAIN v |-> (v[i] - mean) * (v[i] - mean)])

\* Series.std(): the sample deviation (ddof=1), -1 standing for NaN when
\* there are fewer than two values
Std(v) ==
    IF Len(v) < 2 THEN -1 ELSE SqrtIn(SquaredDeviations(v, Mean(v)) \div (Len(v) - 1), 0, 46341)

\* a float64 column: every integer as a float
AsFloat64(numeric) ==
    [i \in DOMAIN numeric |->
        IF numeric[i].k = "int" THEN FloatCell(100 * numeric[i].n) ELSE numeric[i]]

-----------------------------------------------------------------------------
(* trans_type == 'missing' (CSVCleaner)                                     *)

\* numeric.fillna(h): a column with a null is float64 already
FillNumeric(numeric, h) ==
    [i \in DOMAIN numeric |-> IF IsNull(numeric[i]) THEN FloatCell(h) ELSE numeric[i]]

FillMean(numeric) ==
    IF ValuesOf(numeric) = <<>> THEN numeric ELSE FillNumeric(numeric, Mean(ValuesOf(numeric)))

FillMedian(numeric) ==
    IF ValuesOf(numeric) = <<>> THEN numeric ELSE FillNumeric(numeric, Median(ValuesOf(numeric)))

\* the order of str: by character code
AsciiOrder == <<" ", "-", ".">> \o Digits \o UpperLetters \o <<"_">> \o LowerLetters

RECURSIVE TextLess(_, _)
TextLess(a, b) ==
    IF b = <<>> THEN FALSE
    ELSE IF a = <<>> THEN TRUE
    ELSE IF a[1] # b[1] THEN IndexIn(AsciiOrder, a[1]) < IndexIn(AsciiOrder, b[1])
    ELSE TextLess(Tail(a), Tail(b))

CountOf(series, c) == Cardinality({i \in DOMAIN series : series[i] = c})

\* the values that occur most often among the non-null cells
Modes(present) ==
    {c \in Range(present) : \A d \in Range(present) : CountOf(present, d) <= CountOf(present, c)}

CellLess(c, d) ==
    IF c.k = "text" THEN TextLess(c.s, d.s) ELSE Hundredths(c) < Hundredths(d)

\* series.mode(dropna=True).iloc[0]: the modes come sorted, so the first is
\* the least of them; text and numbers do not sort, and the modes then
\* come in the order of their first occurrence
Sortable(modes) == (\A c \in modes : c.k = "text") \/ (\A c \in modes : c.k # "text")

LeastMode(modes) == CHOOSE c \in modes : \A d \in modes : ~CellLess(d, c)

FirstSeenMode(present, modes) ==
    present[CHOOSE i \in DOMAIN present :
                present[i] \in modes /\ \A j \in 1..(i - 1) : present[j] \notin modes]

FirstMode(present, modes) ==
    IF Sortable(modes) THEN LeastMode(modes) ELSE FirstSeenMode(present, modes)

FillWith(series, c) == [i \in DOMAIN series |-> IF IsNull(series[i]) THEN c ELSE series[i]]

FillMode(series, present) ==
    IF present = <<>> THEN series ELSE FillWith(series, FirstMode(present, Modes(present)))

\* strategy and fill_value are <<>> when the job has no such key
_missing_transform(series, strategy, fill_value) ==
    CASE strategy = <<"mean">> -> Done(FillMean(to_numeric(series)))
      [] strategy = <<"median">> -> Done(FillMedian(to_numeric(series)))
      [] strategy = <<"mode">> -> Done(FillMode(series, SelectSeq(series, NotNull)))
      [] strategy = <<"constant">> ->
            IF fill_value = <<>> THEN Raised ELSE Done(FillWith(series, fill_value[1]))
      [] strategy = <<"nan">> -> Done(FillWith(series, NA))
      [] OTHER -> Done(series)

-----------------------------------------------------------------------------
(* trans_type == 'outlier' (CSVCleaner)                                     *)

AbsDiff(a, b) == IF a < b THEN b - a ELSE a - b

\* mask, lower_bound and upper_bound of the method; ok is FALSE when the
\* method returns the column as it is
Bounds(lower, upper, mask) == [ok |-> TRUE, lower |-> lower, upper |-> upper, mask |-> mask]

NoBounds == [ok |-> FALSE, lower |-> 0, upper |-> 0, mask |-> <<>>]

ZscoreMask(numeric, mean, reach) ==
    [i \in DOMAIN numeric |->
        ~IsNull(numeric[i]) /\ AbsDiff(Hundredths(numeric[i]), mean) > reach]

ZscoreBounds_no_std_check(numeric, mean, std, threshold) ==
    Bounds(mean - threshold * std, mean + threshold * std,
           ZscoreMask(numeric, mean, threshold * std))

ZscoreBounds(numeric, mean, std, threshold) ==
    IF std <= 0 THEN NoBounds
    ELSE Bounds(mean - threshold * std, mean + threshold * std,
                ZscoreMask(numeric, mean, threshold * std))

IqrMask(numeric, lower, upper) ==
    [i \in DOMAIN numeric |->
        ~IsNull(numeric[i])
            /\ (Hundredths(numeric[i]) < lower \/ Hundredths(numeric[i]) > upper)]

IqrBounds_ignore_threshold(numeric, q1, q3, threshold) ==
    Bounds(q1, q3, IqrMask(numeric, q1 - threshold * (q3 - q1), q3 + threshold * (q3 - q1)))

IqrBounds(numeric, q1, q3, threshold) ==
    Bounds(q1 - threshold * (q3 - q1), q3 + threshold * (q3 - q1),
           IqrMask(numeric, q1 - threshold * (q3 - q1), q3 + threshold * (q3 - q1)))

MethodBounds(numeric, v, method, threshold) ==
    CASE method = "zscore" -> ZscoreBounds(numeric, Mean(v), Std(v), threshold)
      [] method = "iqr" -> IqrBounds(numeric, Quantile(v, 1), Quantile(v, 3), threshold)
      [] OTHER -> NoBounds

ClipTo(h, lower, upper) == IF h < lower THEN lower ELSE IF h > upper THEN upper ELSE h

\* numeric.mask(mask, ...): the column becomes float64
ReplaceMasked(numeric, v, b, replace) ==
    [i \in DOMAIN numeric |->
        IF ~b.mask[i] THEN AsFloat64(numeric)[i]
        ELSE CASE replace = "mean" -> FloatCell(Mean(v))
               [] replace = "median" -> FloatCell(Median(v))
               [] replace = "clip" -> FloatCell(ClipTo(Hundredths(numeric[i]), b.lower, b.upper))
               [] OTHER -> NaN]

ReplaceOutliers(numeric, v, b, replace) ==
    IF ~b.ok \/ (\A i \in DOMAIN b.mask : ~b.mask[i]) THEN numeric
    ELSE IF replace \in {"mean", "median", "clip", "nan"} THEN ReplaceMasked(numeric, v, b, replace)
    ELSE numeric

OutliersOf(numeric, method, replace, threshold) ==
    IF ValuesOf(numeric) = <<>> THEN numeric
    ELSE ReplaceOutliers(numeric, ValuesOf(numeric),
                         MethodBounds(numeric, ValuesOf(numeric), method, threshold), replace)

_outlier_transform(series, method, replace, threshold) ==
    Done(OutliersOf(to_numeric(series), method, replace, threshold))

-----------------------------------------------------------------------------
(* Frames.  A frame is [columns, data]: the column names in order and, for  *)
(* each, the sequence of its cells.                                         *)

NoTable == [columns |-> <<>>, data |-> <<>>]

\* One job of the mapping, m.get(...) by m.get(...): the parameters of the
\* chosen branch, with the default of the branch when the key is absent
\* (an absent key is the empty sequence).
JobDecimals(m, im, default) ==
    IF im = "CSVCleaner" /\ m.decimals # <<>> THEN m.decimals[1] ELSE default

JobFactor(m) == IF m.factor # <<>> THEN m.factor[1] ELSE 1

JobOperation(m) == IF m.operation # <<>> THEN m.operation[1] ELSE "mul"

JobMethod(m) == IF m.method # <<>> THEN m.method[1] ELSE "zscore"

JobReplace(m) == IF m.replace # <<>> THEN m.replace[1] ELSE "nan"

JobThreshold(m) == IF m.threshold # <<>> THEN m.threshold[1] ELSE 3

\* The branch of the if/elif chain that a job takes
SupportedTypes == {"str", "int", "float", "bool", "percent", "scale", "missing", "outlier"}

\* The transform that the branch of job m applies to one column
Transform(m, im, series) ==
    CASE m.trans_type = "str" -> _str_transform(series)
      [] m.trans_type = "int" -> _int_transform(series)
      [] m.trans_type = "float" -> _float_transform(series, JobDecimals(m, im, 4))
      [] m.trans_type = "bool" -> _bool_transform(series)
      [] m.trans_type = "percent" -> _percent_transform(series, JobDecimals(m, im, 2))
      [] m.trans_type = "scale" -> _scale_transform(series, JobOperation(m), JobFactor(m))
      [] m.trans_type = "missing" -> _missing_transform(series, m.strategy, m.fill_value)
      [] m.trans_type = "outlier" ->
            _outlier_transform(series, JobMethod(m), JobReplace(m), JobThreshold(m))
      [] OTHER -> Done(series)

\* _update_column: every column of the frame that bears the name, left to
\* right.  A transform that raises leaves the frame as the earlier
\* assignments made it.
RECURSIVE _update_column(_, _, _, _, _)
_update_column(frame, column, m, im, j) ==
    IF j > Len(frame.columns) THEN [ok |-> TRUE, df |-> frame]
    ELSE IF frame.columns[j] # column THEN _update_column(frame, column, m, im, j + 1)
    ELSE LET r == Transform(m, im, frame.data[j])
         IN IF ~r.ok THEN [ok |-> FALSE, df |-> frame]
            ELSE _update_column([frame EXCEPT !.data[j] = r.col], column, m, im, j + 1)

\* A loop that stops at the first name the frame does not have
RECURSIVE ApplyJob_break_on_unknown(_, _, _, _)
ApplyJob_break_on_unknown(frame, m, im, c) ==
    IF c > Len(m.Column) THEN [ok |-> TRUE, df |-> frame]
    ELSE IF m.Column[c] \notin Range(frame.columns) THEN [ok |-> TRUE, df |-> frame]
    ELSE LET r == _update_column(frame, m.Column[c], m, im, 1)
         IN IF ~r.ok THEN r ELSE ApplyJob_break_on_unknown(r.df, m, im, c + 1)

\* for col in cols: if col in df.columns: ...
RECURSIVE ApplyJob(_, _, _, _)
ApplyJob(frame, m, im, c) ==
    IF c > Len(m.Column) THEN [ok |-> TRUE, df |-> frame]
    ELSE IF m.Column[c] \notin Range(frame.columns) THEN ApplyJob(frame, m, im, c + 1)
    ELSE LET r == _update_column(frame, m.Column[c], m, im, 1)
         IN IF ~r.ok THEN r ELSE ApplyJob(r.df, m, im, c + 1)

\* df.astype(object).where(df.notna(), float("nan"))
NullsToNaN(frame) ==
    [frame EXCEPT !.data =
        [j \in DOMAIN frame.data |->
            [i \in DOMAIN frame.data[j] |->
                IF IsNull(frame.data[j][i]) THEN NaN ELSE frame.data[j][i]]]]

-----------------------------------------------------------------------------
(* Inputs of the pipeline *)

MaxJobs == 2

T(str) == TextCell(str)

ColumnPool ==
    { <<T(<<"2">>), T(<<"x">>)>>,
      <<T(<<"1", ".", "5">>), T(<<"2">>)>>,
      <<T(<<"1">>), T(<<"0">>)>>,
      <<T(<<" ", "a", " ", "b">>), NaN>>,
      <<T(<<"1", ".", "2", "5">>), NaN>> }

ColA == <<"A">>

ColB == <<"B">>

ColZ == <<"Z">>

SecondColumns ==
    { <<T(<<"2">>), T(<<"x">>)>>,
      <<T(<<"1">>), T(<<"0">>)>> }

InputTables ==
    { [columns |-> <<ColA, ColB>>, data |-> <<a, b>>] : a \in ColumnPool, b \in SecondColumns }

\* a job: an absent key is the empty sequence
Job(tt, cols, dec, fac, op) ==
    [trans_type |-> tt, Column |-> cols, decimals |-> dec, factor |-> fac, operation |-> op,
     strategy |-> <<>>, fill_value |-> <<>>, method |-> <<>>, replace |-> <<>>,
     threshold |-> <<>>]

MissingJob(cols, strategy, fill_value) ==
    [Job("missing", cols, <<>>, <<>>, <<>>) EXCEPT !.strategy = strategy,
                                                   !.fill_value = fill_value]

OutlierJob(cols, method, replace, threshold) ==
    [Job("outlier", cols, <<>>, <<>>, <<>>) EXCEPT !.method = method, !.replace = replace,
                                                   !.threshold = threshold]

\* the jobs on column A
JobShapes ==
    { <<"int", <<>>, <<>>, <<>>>>,
      <<"float", <<>>, <<>>, <<>>>>,
      <<"float", <<1>>, <<>>, <<>>>>,
      <<"bool", <<>>, <<>>, <<>>>>,
      <<"percent", <<>>, <<>>, <<>>>>,
      <<"upper", <<>>, <<>>, <<>>>> }

\* the jobs that name a column the table does not have, and column B
WideShapes ==
    { <<"str", <<>>, <<>>, <<>>>>,
      <<"scale", <<>>, <<1>>, <<"add">>>>,
      <<"scale", <<>>, <<2>>, <<>>>> }

JobPool ==
    { Job(sh[1], <<ColA>>, sh[2], sh[3], sh[4]) : sh \in JobShapes }
        \cup { Job(sh[1], <<ColZ, ColB>>, sh[2], sh[3], sh[4]) : sh \in WideShapes }

SeqsUpTo(S, n) == UNION { [1..k -> S] : k \in 0..n }

-----------------------------------------------------------------------------
(* The variables of the other components, which the pipeline leaves alone, *)
(* and their values while only the pipeline runs.                          *)

PipelineOthers == <<resVars, nameVars, inferVars, combVars, diffVars, previewVars, batchVars, umVars, notesVars>>

PipelineIdle ==
    /\ src = NoTable
    /\ src0 = NoTable
    /\ df = NoTable
    /\ mapping = <<>>
    /\ ji = 1
    /\ pstatus = "idle"
    /\ impl = "CSVCleaner"
    /\ presult = NoTable

ResolverOthers == <<pipeVars, nameVars, inferVars, combVars, diffVars, previewVars, batchVars, umVars, notesVars>>

ResolverIdle ==
    /\ binary = <<>>
    /\ sep_arg = <<>>
    /\ enc_arg = <<>>
    /\ use_pyarrow = FALSE
    /\ rphase = "idle"
    /\ ri = 1
    /\ tried = <<>>
    /\ used = ""
    /\ rresult = NoTable

NamesOthers == <<pipeVars, resVars, inferVars, combVars, diffVars, previewVars, batchVars, umVars, notesVars>>

NamesIdle ==
    /\ ncolumns = <<>>
    /\ ncase = ""
    /\ nstrip = FALSE
    /\ normalised = <<>>
    /\ nstatus = "idle"
    /\ napplied = 0
    /\ nonce = <<>>
    /\ nresult = <<>>

InferOthers == <<pipeVars, resVars, nameVars, combVars, diffVars, previewVars, batchVars, umVars, notesVars>>

InferIdle ==
    /\ idf = NoTable
    /\ idf0 = NoTable
    /\ dtypes = <<>>
    /\ istatus = "idle"

CombineOthers == <<pipeVars, resVars, nameVars, inferVars, diffVars, previewVars, batchVars, umVars, notesVars>>

CombineIdle ==
    /\ df1 = NoTable
    /\ df2 = NoTable
    /\ cmapping = <<>>
    /\ ca = NoTable
    /\ cb = NoTable
    /\ cstatus = "idle"
    /\ cresult = NoTable

DiffOthers == <<pipeVars, resVars, nameVars, inferVars, combVars, previewVars, batchVars, umVars, notesVars>>

DiffIdle ==
    /\ ddf1 = NoTable
    /\ ddf2 = NoTable
    /\ selected = <<>>
    /\ target_cols = <<>>
    /\ dc = 1
    /\ dr = 0
    /\ diffs = <<>>
    /\ fills = {}
    /\ sheets = <<>>
    /\ dstatus = "idle"

PreviewOthers == <<pipeVars, resVars, nameVars, inferVars, combVars, diffVars, batchVars, umVars, notesVars>>

PreviewIdle ==
    /\ pv_binary = <<>>
    /\ pv_book = NoTable
    /\ pv_name = ""
    /\ pv_n = 0
    /\ pv_pyarrow = FALSE
    /\ pv_openpyxl = FALSE
    /\ pv_i = 1
    /\ pv_phase = "idle"
    /\ pv_df = NoTable
    /\ pv_head = [columns |-> <<>>, rows |-> <<>>]

BatchOthers == <<pipeVars, resVars, nameVars, inferVars, combVars, diffVars, previewVars, umVars, notesVars>>

BatchIdle ==
    /\ bt_mode = ""
    /\ bt_df1 = NoTable
    /\ bt_df2 = NoTable
    /\ bt_mapping = <<>>
    /\ bt_locked = {}
    /\ bt_m = 1
    /\ bt_pc = "entry"
    /\ bt_error = ""
    /\ bt_files = <<>>

UmOthers == <<pipeVars, resVars, nameVars, inferVars, combVars, diffVars, previewVars, batchVars, notesVars>>

UmIdle ==
    /\ um_users = <<>>
    /\ um_sessions = <<>>
    /\ um_now = 0
    /\ um_tokens = 0
    /\ um_ret = [op |-> "", arg |-> "", value |-> ""]
    /\ th_req = <<>>
    /\ th_pc = <<>>
    /\ th_users = <<>>
    /\ th_ok = <<>>

NotesOthers == <<pipeVars, resVars, nameVars, inferVars, combVars, diffVars, previewVars, batchVars, umVars>>

NotesIdle ==
    /\ nt_files = <<>>
    /\ nt_ids = 0
    /\ nt_ret = [op |-> "", ok |-> FALSE]

-----------------------------------------------------------------------------
(* formatting(df, mapping) as a state machine: the call, one step per job   *)
(* of the list (one action per branch of the if/elif chain), the return.    *)

PipelineStart ==
    /\ src \in InputTables
    /\ src0 = NoTable
    /\ df = NoTable
    /\ mapping = <<>>
    /\ ji = 1
    /\ pstatus = "idle"
    /\ impl = "CSVCleaner"
    /\ presult = NoTable

\* CSVCleaner.formatting copies the frame; csv_handling.formatting works on
\* the caller's.
FormattingCall(jobs, im) ==
    /\ pstatus = "idle"
    /\ pstatus' = "running"
    /\ impl' = im
    /\ mapping' = jobs
    /\ ji' = 1
    /\ src0' = src
    /\ df' = src
    /\ UNCHANGED <<src, presult>>
    /\ UNCHANGED PipelineOthers

\* The loop is at a job whose trans_type is tt
JobAt(tt) ==
    /\ pstatus = "running"
    /\ ji <= Len(mapping)
    /\ mapping[ji].trans_type = tt

\* The job at ji runs its branch.
RunJob ==
    /\ LET r == ApplyJob(df, mapping[ji], impl, 1)
       IN /\ df' = r.df
          /\ src' = IF impl = "csv_handling" THEN r.df ELSE src
          /\ pstatus' = IF r.ok THEN "running" ELSE "raised"
          /\ ji' = IF r.ok THEN ji + 1 ELSE ji
    /\ UNCHANGED <<src0, mapping, impl, presult>>
    /\ UNCHANGED PipelineOthers

JobStr ==
    /\ JobAt("str")
    /\ RunJob

JobInt ==
    /\ JobAt("int")
    /\ RunJob

JobFloat ==
    /\ JobAt("float")
    /\ RunJob

JobBool ==
    /\ JobAt("bool")
    /\ RunJob

JobPercent ==
    /\ JobAt("percent")
    /\ RunJob

JobScale ==
    /\ JobAt("scale")
    /\ RunJob

\* A trans_type that no branch tests: the loop goes on to the next job.
JobNoBranch ==
    /\ pstatus = "running"
    /\ ji <= Len(mapping)
    /\ mapping[ji].trans_type \notin SupportedTypes
    /\ ji' = ji + 1
    /\ UNCHANGED <<src, src0, df, mapping, pstatus, impl, presult>>
    /\ UNCHANGED PipelineOthers

FormattingReturn ==
    /\ pstatus = "running"
    /\ ji > Len(mapping)
    /\ presult' = NullsToNaN(df)
    /\ pstatus' = "returned"
    /\ UNCHANGED <<src, src0, df, mapping, ji, impl>>
    /\ UNCHANGED PipelineOthers

PipelineNext ==
    \/ \E jobs \in SeqsUpTo(JobPool, MaxJobs), im \in {"CSVCleaner", "csv_handling"} :
          FormattingCall(jobs, im)
    \/ JobStr
    \/ JobInt
    \/ JobFloat
    \/ JobBool
    \/ JobPercent
    \/ JobScale
    \/ JobNoBranch
    \/ FormattingReturn

PipelineInit == PipelineStart /\ ResolverIdle /\ NamesIdle /\ InferIdle /\ CombineIdle /\ DiffIdle /\ PreviewIdle /\ BatchIdle /\ UmIdle /\ NotesIdle

SpecPipeline == PipelineInit /\ [][PipelineNext]_vars

-----------------------------------------------------------------------------
(* CSVCleaner.formatting with the jobs that fill missing cells, handle      *)
(* outliers, and cast to float then scale                                   *)

CleanColumns ==
    { <<T(<<"5">>), T(<<"3">>), T(<<"1", "6">>)>>,
      <<T(<<"1">>), NaN, T(<<"x">>), T(<<"3">>)>>,
      <<T(<<"b">>), T(<<"a">>), NaN>>,
      <<T(<<"-">>), NaN, T(<<"x">>)>>,
      <<T(<<"7">>), T(<<"7">>), T(<<"7">>)>>,
      <<T(<<"4">>)>>,
      <<T(<<"x">>), NaN>>,
      <<T(<<"1">>), T(<<"2">>), T(<<"3">>), T(<<"4">>), T(<<"1", "0", "0">>)>>,
      <<T(<<"1", ".", "2", "5">>), T(<<"2", ".", "5">>), NaN>>,
      <<T(<<"1", ".", "5">>), T(<<"2">>)>> }

CleanFrames == { [columns |-> <<ColA>>, data |-> <<a>>] : a \in CleanColumns }

MissingJobs ==
    { MissingJob(<<ColA>>, st, <<>>) :
        st \in {<<>>, <<"mean">>, <<"median">>, <<"mode">>, <<"constant">>, <<"nan">>} }
        \cup { MissingJob(<<ColA>>, <<"constant">>, <<IntCell(0)>>) }

OutlierJobs ==
    { OutlierJob(<<ColA>>, me, re, th) :
        me \in {<<>>, <<"iqr">>},
        re \in {<<>>, <<"mean">>, <<"median">>, <<"clip">>},
        th \in {<<>>, <<1>>} }

FloatJobs == { Job("float", <<ColA>>, dec, <<>>, <<>>) : dec \in {<<>>, <<1>>} }

ScaleByOne == Job("scale", <<ColA>>, <<>>, <<1>>, <<"mul">>)

\* one job, or a cast to float followed by a scale by one
CleanMappings ==
    { <<m>> : m \in MissingJobs \cup OutlierJobs \cup FloatJobs }
        \cup { <<m, ScaleByOne>> : m \in FloatJobs }

CleaningStart ==
    /\ src \in CleanFrames
    /\ src0 = NoTable
    /\ df = NoTable
    /\ mapping = <<>>
    /\ ji = 1
    /\ pstatus = "idle"
    /\ impl = "CSVCleaner"
    /\ presult = NoTable

JobMissing ==
    /\ JobAt("missing")
    /\ RunJob

JobOutlier ==
    /\ JobAt("outlier")
    /\ RunJob

CleaningNext ==
    \/ \E jobs \in CleanMappings : FormattingCall(jobs, "CSVCleaner")
    \/ JobFloat
    \/ JobScale
    \/ JobMissing
    \/ JobOutlier
    \/ FormattingReturn

CleaningInit == CleaningStart /\ ResolverIdle /\ NamesIdle /\ InferIdle /\ CombineIdle /\ DiffIdle /\ PreviewIdle /\ BatchIdle /\ UmIdle /\ NotesIdle

SpecCleaning == CleaningInit /\ [][CleaningNext]_vars


-----------------------------------------------------------------------------
(* Properties of the pipeline *)

FormattingCalled == pstatus \in {"running", "returned", "raised"}

\* C1: no pipeline stage mutates its input: from the call of formatting on,
\* whether it returns or raises, the caller's table has the column names and
\* the cells it had at the call.
C1_InputNeverMutated == FormattingCalled => src = src0

\* What one job is to do to a frame: the columns that the job names and the
\* frame has are transformed, every other column is kept, and a name that
\* the frame does not have is passed over.
NamedBy(m, frame, j) == frame.columns[j] \in Range(m.Column)

ExpectedJob(frame, m, im) ==
    [frame EXCEPT !.data =
        [j \in DOMAIN frame.data |->
            IF NamedBy(m, frame, j) THEN Transform(m, im, frame.data[j]).col
            ELSE frame.data[j]]]

RECURSIVE ExpectedAfter(_, _, _, _)
ExpectedAfter(frame, jobs, im, n) ==
    IF n = 0 THEN frame
    ELSE ExpectedJob(ExpectedAfter(frame, jobs, im, n - 1), jobs[n], im)

SomeNamedColumnFails(frame, m, im) ==
    \E j \in DOMAIN frame.columns : NamedBy(m, frame, j) /\ ~Transform(m, im, frame.data[j]).ok

NamedByNoJob(jobs, frame, j) == \A i \in DOMAIN jobs : ~NamedBy(jobs[i], frame, j)

\* C2: formatting applies the jobs in list order, each on the table as the
\* jobs before it left it; a target column that the table does not have is
\* passed over without an error and the other targets of the job are still
\* transformed; a column that no job names keeps all its values.
C2_JobsInListOrder ==
    /\ pstatus = "running" => df = ExpectedAfter(src0, mapping, impl, ji - 1)
    /\ pstatus = "returned" =>
          /\ presult = NullsToNaN(ExpectedAfter(src0, mapping, impl, Len(mapping)))
          /\ \A j \in DOMAIN src0.columns :
                NamedByNoJob(mapping, src0, j) => presult.data[j] = src0.data[j]
    /\ pstatus = "raised" =>
          SomeNamedColumnFails(ExpectedAfter(src0, mapping, impl, ji - 1), mapping[ji], impl)

\* C2 witness: add 1 then multiply by 2 on the targets Z (not a column) and
\* B; B held "1", "0" and holds (1+1)*2 and (0+1)*2, not 1*2+1 and 0*2+1,
\* and A is as it was.
C2_Witness ==
    /\ pstatus = "returned"
    /\ Len(mapping) = 2
    /\ mapping[1] = Job("scale", <<ColZ, ColB>>, <<>>, <<1>>, <<"add">>)
    /\ mapping[2] = Job("scale", <<ColZ, ColB>>, <<>>, <<2>>, <<>>)
    /\ src0.data[2] = <<T(<<"1">>), T(<<"0">>)>>
    /\ presult.data[2] = <<IntCell(4), IntCell(2)>>
    /\ presult.data[1] = src0.data[1]

HasInvalidJob == \E i \in DOMAIN mapping : mapping[i].trans_type \notin SupportedTypes

\* C3: when a job of the list is structurally invalid (a trans_type that is
\* not supported), formatting reports an error before any job executes: it
\* never returns a table, and no job of the list has changed the frame.
C3_InvalidJobFailsFast ==
    (FormattingCalled /\ HasInvalidJob) => (pstatus # "returned" /\ df = src0)

CoercionTypes == {"int", "float", "bool", "scale", "percent"}

\* C4: a cell that cannot be coerced never aborts a job: no Cast-Integer,
\* Cast-Float, Cast-Boolean, Scale or Format-Percent job raises, whatever
\* the column holds.
C4_CoercionNeverAborts ==
    pstatus = "raised" => mapping[ji].trans_type \notin CoercionTypes

-----------------------------------------------------------------------------
(* Bytes and decoding.  A byte is its number.  A decoded character is a    *)
(* one-character string when it is ASCII and the name of its code point    *)
(* ("U+4E2D") otherwise.  The codecs are Python's, restricted to the bytes *)
(* of the model: 0x81, 0xAD, 0xB8, 0xE4 and the ASCII bytes below.  Each   *)
(* table lists the byte sequences that a codec decodes to one character;   *)
(* a non-ASCII byte that starts none of them is a UnicodeDecodeError.      *)

AsciiBytes == <<65, 66, 49, 50, 51, 44, 59, 10>>

AsciiChars == <<"A", "B", "1", "2", "3", ",", ";", "\n">>

Utf8Codec ==
    { <<<<228, 129, 129>>, "U+4041">>, <<<<228, 129, 173>>, "U+406D">>,
      <<<<228, 129, 184>>, "U+4078">>, <<<<228, 173, 129>>, "U+4B41">>,
      <<<<228, 173, 173>>, "U+4B6D">>, <<<<228, 173, 184>>, "U+4B78">>,
      <<<<228, 184, 129>>, "U+4E01">>, <<<<228, 184, 173>>, "U+4E2D">>,
      <<<<228, 184, 184>>, "U+4E38">> }

Utf8SigCodec ==
    { <<<<228, 129, 129>>, "U+4041">>, <<<<228, 129, 173>>, "U+406D">>,
      <<<<228, 129, 184>>, "U+4078">>, <<<<228, 173, 129>>, "U+4B41">>,
      <<<<228, 173, 173>>, "U+4B6D">>, <<<<228, 173, 184>>, "U+4B78">>,
      <<<<228, 184, 129>>, "U+4E01">>, <<<<228, 184, 173>>, "U+4E2D">>,
      <<<<228, 184, 184>>, "U+4E38">> }

GbkCodec ==
    { <<<<129, 65>>, "U+4E04">>, <<<<129, 66>>, "U+4E05">>, <<<<129, 129>>, "U+4E96">>,
      <<<<129, 173>>, "U+4F03">>, <<<<129, 184>>, "U+4F15">>, <<<<129, 228>>, "U+4F77">>,
      <<<<173, 65>>, "U+747C">>, <<<<173, 66>>, "U+747D">>, <<<<173, 129>>, "U+74C9">>,
      <<<<184, 65>>, "U+7AA4">>, <<<<184, 66>>, "U+7AA7">>, <<<<184, 129>>, "U+7AF5">>,
      <<<<184, 173>>, "U+8151">>, <<<<184, 184>>, "U+7236">>, <<<<184, 228>>, "U+9550">>,
      <<<<228, 65>>, "U+92A9">>, <<<<228, 66>>, "U+92AA">>, <<<<228, 129>>, "U+92EA">>,
      <<<<228, 173>>, "U+6D35">>, <<<<228, 184>>, "U+6D93">>, <<<<228, 228>>, "U+6ED7">> }

Gb2312Codec ==
    { <<<<184, 173>>, "U+8151">>, <<<<184, 184>>, "U+7236">>, <<<<184, 228>>, "U+9550">>,
      <<<<228, 173>>, "U+6D35">>, <<<<228, 184>>, "U+6D93">>, <<<<228, 228>>, "U+6ED7">> }

Big5Codec ==
    { <<<<173, 65>>, "U+800D">>, <<<<173, 66>>, "U+8011">>, <<<<173, 173>>, "U+9650">>,
      <<<<173, 184>>, "U+98DB">>, <<<<173, 228>>, "U+51CB">>, <<<<184, 65>>, "U+776A">>,
      <<<<184, 66>>, "U+776C">>, <<<<184, 173>>, "U+8449">>, <<<<184, 184>>, "U+865C">>,
      <<<<184, 228>>, "U+8A3E">>, <<<<228, 65>>, "U+88EC">>, <<<<228, 66>>, "U+88EB">>,
      <<<<228, 173>>, "U+927D">>, <<<<228, 184>>, "U+929D">>, <<<<228, 228>>, "U+9CF5">> }

ShiftJisCodec ==
    { <<<<129, 65>>, "U+3001">>, <<<<129, 66>>, "U+3002">>, <<<<129, 129>>, "U+FF1D">>,
      <<<<129, 184>>, "U+2208">>, <<<<129, 228>>, "U+223D">>, <<<<173>>, "U+FF6D">>,
      <<<<184>>, "U+FF78">>, <<<<228, 65>>, "U+8146">>, <<<<228, 66>>, "U+813E">>,
      <<<<228, 129>>, "U+8268">>, <<<<228, 173>>, "U+839A">>, <<<<228, 184>>, "U+8373">>,
      <<<<228, 228>>, "U+84BF">> }

Cp1252Codec ==
    { <<<<173>>, "U+00AD">>, <<<<184>>, "U+00B8">>, <<<<228>>, "U+00E4">> }

Latin1Codec ==
    { <<<<129>>, "U+0081">>, <<<<173>>, "U+00AD">>, <<<<184>>, "U+00B8">>,
      <<<<228>>, "U+00E4">> }

Codec(enc) ==
    CASE enc = "utf-8" -> Utf8Codec
      [] enc = "utf-8-sig" -> Utf8SigCodec
      [] enc = "gbk" -> GbkCodec
      [] enc = "gb2312" -> Gb2312Codec
      [] enc = "big5" -> Big5Codec
      [] enc = "shift_jis" -> ShiftJisCodec
      [] enc = "cp1252" -> Cp1252Codec
      [] OTHER -> Latin1Codec

StartsWith(bs, p) == Len(p) <= Len(bs) /\ SubSeq(bs, 1, Len(p)) = p

Decoded(text) == [ok |-> TRUE, text |-> text]

DecodeError == [ok |-> FALSE, text |-> <<>>]

\* bytes.decode(enc, errors="strict")
RECURSIVE DecodeFrom(_, _, _)
DecodeEntry(tab, bs, acc, e) ==
    DecodeFrom(tab, SubSeq(bs, Len(e[1]) + 1, Len(bs)), Append(acc, e[2]))

DecodeFrom(tab, bs, acc) ==
    IF bs = <<>> THEN Decoded(acc)
    ELSE IF bs[1] \in Range(AsciiBytes)
    THEN DecodeFrom(tab, Tail(bs), Append(acc, AsciiChars[IndexIn(AsciiBytes, bs[1])]))
    ELSE IF \E e \in tab : StartsWith(bs, e[1])
    THEN DecodeEntry(tab, bs, acc, CHOOSE e \in tab : StartsWith(bs, e[1]))
    ELSE DecodeError

Decode(bs, enc) == DecodeFrom(Codec(enc), bs, <<>>)

-----------------------------------------------------------------------------
(* pd.read_csv(BytesIO(binary), encoding=enc, engine=engine, sep=sep)      *)

RECURSIVE SplitAcc(_, _, _, _)
SplitAcc(s, d, cur, acc) ==
    IF s = <<>> THEN Append(acc, cur)
    ELSE IF s[1] = d THEN SplitAcc(Tail(s), d, <<>>, Append(acc, cur))
    ELSE SplitAcc(Tail(s), d, Append(cur, s[1]), acc)

\* str.split(d)
SplitOn(s, d) == SplitAcc(s, d, <<>>, <<>>)

NotBlank(line) == line # <<>>

\* the lines of the text, blank lines skipped (skip_blank_lines=True)
TextLines(text) == SelectSeq(SplitOn(text, "\n"), NotBlank)

SplitLines(lines, sep) == [i \in DOMAIN lines |-> SplitOn(lines[i], sep)]

\* the fields of every line
TextRows(text, sep) == SplitLines(TextLines(text), sep)

Parsed(table) == [ok |-> TRUE, error |-> "", table |-> table]

ReadError(name) == [ok |-> FALSE, error |-> name, table |-> NoTable]

\* field k of a row; a row that is too short is padded with missing values
FieldAt(row, k) == IF k <= Len(row) THEN row[k] ELSE <<>>

\* One parsed column: int64 when every field is an integer, float64 when
\* the others are missing, object (text, NaN for missing) otherwise.
FieldCell(f) == IF f = <<>> THEN NaN ELSE TextCell(f)

InferDtype(fields) ==
    IF \A i \in DOMAIN fields : AllDigits(fields[i])
    THEN [i \in DOMAIN fields |-> IntCell(DigitsVal(fields[i]))]
    ELSE IF \A i \in DOMAIN fields : fields[i] = <<>> \/ AllDigits(fields[i])
    THEN [i \in DOMAIN fields |->
            IF fields[i] = <<>> THEN NaN ELSE FloatCell(100 * DigitsVal(fields[i]))]
    ELSE [i \in DOMAIN fields |-> FieldCell(fields[i])]

\* The frame of a header row and data rows.  `leading` fields of every data
\* row go to the index, which the model does not keep.
BuildFrame(rows, leading) ==
    [columns |-> rows[1],
     data |-> [j \in DOMAIN rows[1] |->
                 InferDtype([i \in 1..(Len(rows) - 1) |-> FieldAt(rows[i + 1], leading + j)])]]

\* The width of the table: the header's, or the first data row's when that
\* one is longer (its leading fields are then the index).
TableWidth(rows) ==
    IF Len(rows) >= 2 /\ Len(rows[2]) > Len(rows[1]) THEN Len(rows[2]) ELSE Len(rows[1])

CParseWidth(rows, w) ==
    IF \E i \in 3..Len(rows) : Len(rows[i]) > w THEN ReadError("ParserError")
    ELSE Parsed(BuildFrame(rows, w - Len(rows[1])))

\* engine="c"
CParse(rows) ==
    IF rows = <<>> THEN ReadError("EmptyDataError") ELSE CParseWidth(rows, TableWidth(rows))

\* engine="pyarrow": every row has as many fields as the header
PyarrowParse(rows) ==
    IF rows = <<>> THEN ReadError("EmptyDataError")
    ELSE IF \E i \in DOMAIN rows : Len(rows[i]) # Len(rows[1]) THEN ReadError("ParserError")
    ELSE Parsed(BuildFrame(rows, 0))

ParseDecoded(d, engine, sep) ==
    IF ~d.ok THEN ReadError("UnicodeDecodeError")
    ELSE IF engine = "pyarrow" THEN PyarrowParse(TextRows(d.text, sep))
    ELSE CParse(TextRows(d.text, sep))

read_csv(bytes, enc, engine, sep) == ParseDecoded(Decode(bytes, enc), engine, sep)

-----------------------------------------------------------------------------
(* CSVProcessor.read_with_encoding_fallback(binary, sep=sep_arg,           *)
(* encoding=enc_arg), one action per call of pd.read_csv.                  *)

\* base_kwargs: read_csv's default separator unless sep is given
SepOf(arg) == IF arg # <<>> THEN arg[1] ELSE ","

utf8_tries == <<"utf-8", "utf-8-sig">>

local_encodings_big5_first == <<"big5", "gbk", "gb2312", "shift_jis", "cp1252">>

local_encodings == <<"gbk", "gb2312", "big5", "shift_jis", "cp1252">>

Utf8Engine == IF use_pyarrow THEN "pyarrow" ELSE "c"

MaxLines == 3

LinePool ==
    { <<65, 44, 66>>,               \* A,B
      <<65, 59, 66>>,               \* A;B
      <<49, 59, 50>>,               \* 1;2
      <<228, 184, 173>>,            \* one character in UTF-8
      <<173, 173>>,                 \* one character in Big5
      <<173>>,                      \* one character in Shift-JIS
      <<228>>,                      \* one character in CP1252
      <<129>> }                     \* defined in latin1 only

RECURSIVE JoinLines(_)
JoinLines(lines) ==
    IF lines = <<>> THEN <<>> ELSE lines[1] \o <<10>> \o JoinLines(Tail(lines))

Files == { JoinLines(ls) : ls \in SeqsUpTo(LinePool, MaxLines) }

ResolverStart ==
    /\ binary \in Files
    /\ sep_arg \in {<<>>, <<";">>}
    /\ enc_arg \in {<<>>, <<"gbk">>}
    /\ use_pyarrow \in BOOLEAN
    /\ rphase = "start"
    /\ ri = 1
    /\ tried = <<>>
    /\ used = ""
    /\ rresult = NoTable

\* One call of read_csv; on failure the reader goes to phase `failPhase`
ReadAttempt(enc, engine, failPhase, failIndex) ==
    /\ tried' = Append(tried, enc)
    /\ IF read_csv(binary, enc, engine, SepOf(sep_arg)).ok
       THEN /\ rphase' = "returned"
            /\ used' = enc
            /\ rresult' = read_csv(binary, enc, engine, SepOf(sep_arg)).table
            /\ ri' = ri
       ELSE /\ rphase' = failPhase
            /\ ri' = failIndex
            /\ UNCHANGED <<used, rresult>>
    /\ UNCHANGED <<binary, sep_arg, enc_arg, use_pyarrow>>
    /\ UNCHANGED ResolverOthers

ReadStart ==
    /\ rphase = "start"
    /\ rphase' = IF enc_arg # <<>> THEN "explicit" ELSE "utf8"
    /\ UNCHANGED <<binary, sep_arg, enc_arg, use_pyarrow, ri, tried, used, rresult>>
    /\ UNCHANGED ResolverOthers

ReadExplicit ==
    /\ rphase = "explicit"
    /\ ReadAttempt(enc_arg[1], "c", "raised", ri)

TryUtf8 ==
    /\ rphase = "utf8"
    /\ IF ri < Len(utf8_tries)
       THEN ReadAttempt(utf8_tries[ri], Utf8Engine, "utf8", ri + 1)
       ELSE ReadAttempt(utf8_tries[ri], Utf8Engine, "local", 1)

TryLocal ==
    /\ rphase = "local"
    /\ IF ri < Len(local_encodings)
       THEN ReadAttempt(local_encodings[ri], "c", "local", ri + 1)
       ELSE ReadAttempt(local_encodings[ri], "c", "latin1", 1)

TryLatin1 ==
    /\ rphase = "latin1"
    /\ ReadAttempt("latin1", "c", "raised", ri)

ResolverNext ==
    \/ ReadStart
    \/ ReadExplicit
    \/ TryUtf8
    \/ TryLocal
    \/ TryLatin1

ResolverInit == ResolverStart /\ PipelineIdle /\ NamesIdle /\ InferIdle /\ CombineIdle /\ DiffIdle /\ PreviewIdle /\ BatchIdle /\ UmIdle /\ NotesIdle

SpecResolver == ResolverInit /\ [][ResolverNext]_vars

-----------------------------------------------------------------------------
(* Properties of the reader *)

ReadFinished == rphase \in {"returned", "raised"}

\* C5: with no explicit encoding, read_with_encoding_fallback never raises:
\* whatever the bytes (empty input and rows of unequal field count
\* included), the call ends by returning a table.
C5_FallbackNeverRaises == enc_arg = <<>> => rphase # "raised"

CandidateOrder ==
    <<"utf-8", "utf-8-sig", "gbk", "gb2312", "big5", "shift_jis", "cp1252", "latin1">>

IsPrefixOf(p, s) == Len(p) <= Len(s) /\ SubSeq(s, 1, Len(p)) = p

EngineOf(enc) == IF enc \in Range(utf8_tries) THEN Utf8Engine ELSE "c"

Succeeds(enc) == read_csv(binary, enc, EngineOf(enc), SepOf(sep_arg)).ok

\* C6: without an explicit encoding the encodings are tried in the order
\* utf-8, utf-8-sig, gbk, gb2312, big5, shift_jis, cp1252, latin1; the call
\* returns the table of the first one that decodes and parses, and tries
\* none after it.  With an explicit encoding only that one is tried, and
\* its failure ends the call with the error.
C6_FixedOrderFirstSuccess ==
    /\ enc_arg = <<>> =>
        /\ IsPrefixOf(tried, CandidateOrder)
        /\ \A i \in 1..(Len(tried) - 1) : ~Succeeds(tried[i])
        /\ rphase = "returned" =>
            /\ used = tried[Len(tried)]
            /\ Succeeds(used)
            /\ rresult = read_csv(binary, used, EngineOf(used), SepOf(sep_arg)).table
        /\ (tried # <<>> /\ Succeeds(tried[Len(tried)])) => rphase = "returned"
    /\ enc_arg # <<>> =>
        /\ IsPrefixOf(tried, <<enc_arg[1]>>)
        /\ ReadFinished => tried = <<enc_arg[1]>>
        /\ rphase = "returned" => (used = enc_arg[1] /\ Succeeds(enc_arg[1]))
        /\ rphase = "raised" => ~Succeeds(enc_arg[1])

C6_Witness ==
    /\ enc_arg = <<>>
    /\ rphase = "returned"
    /\ used = "shift_jis"
    /\ tried = <<"utf-8", "utf-8-sig", "gbk", "gb2312", "big5", "shift_jis">>

SemicolonFile == <<65, 59, 66, 10, 49, 59, 50, 10>>

\* C7: when no separator is given it is detected, so that a file whose
\* fields are separated by ';' only is read into its ';'-separated columns:
\* the bytes "A;B\n1;2\n" give the two columns A and B.
C7_SeparatorDetected ==
    (binary = SemicolonFile /\ sep_arg = <<>> /\ rphase = "returned")
        => rresult.columns = << <<"A">>, <<"B">> >>

-----------------------------------------------------------------------------
(* CSVCleaner.clean_column_names(df, case=ncase, strip_special=nstrip)     *)
(* A name is a sequence of characters; "U+0149" and "U+02BC" are the       *)
(* non-ASCII characters of the model (U+0149 upper-cases to the two        *)
(* characters U+02BC, N).                                                  *)

IsWordChar(c) ==
    IsDigit(c) \/ c \in Range(LowerLetters) \/ c \in Range(UpperLetters) \/ c = "_"

\* str.upper, str.lower and str.title on one character
UpperOf(c) == IF c = "U+0149" THEN <<"U+02BC", "N">> ELSE <<UpperChar(c)>>

LowerOf(c) == <<LowerChar(c)>>

TitleOf(c) == UpperOf(c)

RECURSIVE Flatten(_)
Flatten(ss) == IF ss = <<>> THEN <<>> ELSE ss[1] \o Flatten(Tail(ss))

Upper(s) == Flatten([i \in DOMAIN s |-> UpperOf(s[i])])

Lower(s) == Flatten([i \in DOMAIN s |-> LowerOf(s[i])])

\* str.capitalize
Capitalize(part) == IF part = <<>> THEN <<>> ELSE TitleOf(part[1]) \o Lower(Tail(part))

\* "_".join(parts)
RECURSIVE JoinUnderscore(_)
JoinUnderscore(parts) ==
    IF Len(parts) = 1 THEN parts[1] ELSE parts[1] \o <<"_">> \o JoinUnderscore(Tail(parts))

TitleCase(col) == JoinUnderscore(MapSeq(SplitOn(col, "_"), Capitalize))

\* re.sub(r"\s+", "_", col)
RECURSIVE CollapseSpaces(_)
CollapseSpaces(col) ==
    IF col = <<>> THEN <<>>
    ELSE IF IsSpace(col[1]) THEN <<"_">> \o CollapseSpaces(LStrip(col))
    ELSE <<col[1]>> \o CollapseSpaces(Tail(col))

\* re.sub(r"[^0-9a-zA-Z_]+", "", col) when strip_special
StripSpecial(col, strip_special) == IF strip_special THEN SelectSeq(col, IsWordChar) ELSE col

ApplyCase(col, case_value) ==
    CASE case_value = "upper" -> Upper(col)
      [] case_value = "lower" -> Lower(col)
      [] case_value = "title" -> TitleCase(col)
      [] OTHER -> col

\* the body of the loop for one column name
NormaliseName(original, case_value, strip_special) ==
    ApplyCase(StripSpecial(CollapseSpaces(Strip(original)), strip_special), case_value)

MaxCols == 2

NamePool ==
    { <<"a", " ", "b">>,
      <<"A", "_", "B">>,
      <<" ", "a", "-", "b", " ">>,
      <<"a", "B", "_", "c">>,
      <<"a", " ", " ", "b", "1">>,
      <<"U+0149", "a">> }

Injective(f) == \A i, j \in DOMAIN f : f[i] = f[j] => i = j

\* the column names of a frame that was read from a file: no name twice
NameLists == { l \in SeqsUpTo(NamePool, MaxCols) : l # <<>> /\ Injective(l) }

NamesStart ==
    /\ ncolumns \in NameLists
    /\ ncase \in {"upper", "lower", "title", ""}
    /\ nstrip \in BOOLEAN
    /\ normalised = <<>>
    /\ nstatus = "idle"
    /\ napplied = 0
    /\ nonce = <<>>
    /\ nresult = <<>>

\* The first call, on the frame that was read
CleanCall ==
    /\ nstatus = "idle"
    /\ nstatus' = "running"
    /\ normalised' = <<>>
    /\ UNCHANGED <<ncolumns, ncase, nstrip, napplied, nonce, nresult>>
    /\ UNCHANGED NamesOthers

\* for original in df.columns: ... normalised.append(col)
NormaliseColumn ==
    /\ nstatus = "running"
    /\ Len(normalised) < Len(ncolumns)
    /\ normalised' =
         Append(normalised, NormaliseName(ncolumns[Len(normalised) + 1], ncase, nstrip))
    /\ UNCHANGED <<ncolumns, ncase, nstrip, nstatus, napplied, nonce, nresult>>
    /\ UNCHANGED NamesOthers

\* df.columns = normalised; return df
CleanReturn ==
    /\ nstatus = "running"
    /\ Len(normalised) = Len(ncolumns)
    /\ nstatus' = "returned"
    /\ nresult' = normalised
    /\ napplied' = napplied + 1
    /\ nonce' = IF napplied = 0 THEN normalised ELSE nonce
    /\ UNCHANGED <<ncolumns, ncase, nstrip, normalised>>
    /\ UNCHANGED NamesOthers

\* The caller applies clean_column_names, with the same arguments, to the
\* frame it got back
CleanAgain ==
    /\ nstatus = "returned"
    /\ napplied = 1
    /\ ncolumns' = nresult
    /\ normalised' = <<>>
    /\ nstatus' = "running"
    /\ UNCHANGED <<ncase, nstrip, napplied, nonce, nresult>>
    /\ UNCHANGED NamesOthers

NamesNext ==
    \/ CleanCall
    \/ NormaliseColumn
    \/ CleanReturn
    \/ CleanAgain

NamesInit == NamesStart /\ PipelineIdle /\ ResolverIdle /\ InferIdle /\ CombineIdle /\ DiffIdle /\ PreviewIdle /\ BatchIdle /\ UmIdle /\ NotesIdle

SpecNames == NamesInit /\ [][NamesNext]_vars

\* C8: clean_column_names is idempotent: with the same case and
\* strip_special, applying it to its own result gives the column names of
\* the first application.
C8_CleanNamesIdempotent == (nstatus = "returned" /\ napplied = 2) => nresult = nonce

\* C9: the column names of the frame clean_column_names returns are pairwise
\* distinct (a name that repeats gets a numbered suffix).
C9_CleanNamesDistinct == (nstatus = "returned" /\ napplied = 1) => Injective(nresult)

-----------------------------------------------------------------------------
(* CSVProcessor._infer_column_types(df).  A cell is a text or NaN.          *)

MISSING_VALUES ==
    { <<>>, <<"n", "a", "n">>, <<"N", "o", "n", "e">>, <<"N", "a", "N">>,
      <<"n", "u", "l", "l">>, <<"N", "U", "L", "L">>, <<"N", "A">>, <<"N", "/", "A">> }

\* NUMERIC_PATTERN = ^-?\d+(\.\d+)?$
UnsignedNumeric(u, d) ==
    IF d = 0 THEN AllDigits(u)
    ELSE AllDigits(SubSeq(u, 1, d - 1)) /\ AllDigits(SubSeq(u, d + 1, Len(u)))

NUMERIC_PATTERN(sample) ==
    IF sample # <<>> /\ sample[1] = "-"
    THEN UnsignedNumeric(Tail(sample), DotAt(Tail(sample)))
    ELSE UnsignedNumeric(sample, DotAt(sample))

\* DATE_PATTERN = ^\d{4}-\d{2}-\d{2}
DATE_PATTERN(sample) ==
    /\ Len(sample) >= 10
    /\ \A i \in {1, 2, 3, 4, 6, 7, 9, 10} : IsDigit(sample[i])
    /\ sample[5] = "-"
    /\ sample[8] = "-"

\* df[col].isin(MISSING_VALUES) | df[col].isna()
IsMissingCell(c) == IsNull(c) \/ (c.k = "text" /\ c.s \in MISSING_VALUES)

NotMissingCell(c) == ~IsMissingCell(c)

\* df[col][~(...)]
non_empty(series) == SelectSeq(series, NotMissingCell)

\* str(non_empty.iloc[0])
SampleOf(series) == StrOf(non_empty(series)[1])

MaxRows == 2

CellPool ==
    { NaN, T(<<>>), T(<<"-">>), T(<<"n", "a">>), T(<<"N", "A">>), T(<<"N", "/", "A">>),
      T(<<"n", "u", "l", "l">>), T(<<"N", "U", "L", "L">>), T(<<"N", "o", "n", "e">>),
      T(<<"n", "a", "n">>), T(<<"1", "2">>), T(<<"-", "1", ".", "5">>), T(<<"1", ".">>),
      T(<<"2", "0", "2", "4", "-", "0", "1", "-", "0", "5">>), T(<<"x">>) }

SecondCellPool == { T(<<"-">>), T(<<"1", "2">>) }

\* a frame of two columns and r rows
InferFrame(a, b) == [columns |-> <<ColA, ColB>>, data |-> <<a, b>>]

InferStart ==
    /\ \E r \in 0..MaxRows :
          \E a \in [1..r -> CellPool], b \in [1..r -> SecondCellPool] : idf = InferFrame(a, b)
    /\ idf0 = idf
    /\ dtypes = <<>>
    /\ istatus = "running"

NextSeries == idf.data[Len(dtypes) + 1]

\* the loop is at a column
Inferring == istatus = "running" /\ Len(dtypes) < Len(idf.columns)

InferStep(type) ==
    /\ dtypes' = Append(dtypes, type)
    /\ UNCHANGED <<idf, idf0, istatus>>
    /\ UNCHANGED InferOthers

InferUnknown ==
    /\ Inferring
    /\ non_empty(NextSeries) = <<>>
    /\ InferStep("unknown")

InferNumeric ==
    /\ Inferring
    /\ non_empty(NextSeries) # <<>>
    /\ NUMERIC_PATTERN(SampleOf(NextSeries))
    /\ InferStep("numeric")

InferDate ==
    /\ Inferring
    /\ non_empty(NextSeries) # <<>>
    /\ ~NUMERIC_PATTERN(SampleOf(NextSeries))
    /\ DATE_PATTERN(SampleOf(NextSeries))
    /\ InferStep("date")

InferText ==
    /\ Inferring
    /\ non_empty(NextSeries) # <<>>
    /\ ~NUMERIC_PATTERN(SampleOf(NextSeries))
    /\ ~DATE_PATTERN(SampleOf(NextSeries))
    /\ InferStep("text")

InferReturn ==
    /\ istatus = "running"
    /\ Len(dtypes) = Len(idf.columns)
    /\ istatus' = "returned"
    /\ UNCHANGED <<idf, idf0, dtypes>>
    /\ UNCHANGED InferOthers

InferNext ==
    \/ InferUnknown
    \/ InferNumeric
    \/ InferDate
    \/ InferText
    \/ InferReturn

InferInit == InferStart /\ PipelineIdle /\ ResolverIdle /\ NamesIdle /\ CombineIdle /\ DiffIdle /\ PreviewIdle /\ BatchIdle /\ UmIdle /\ NotesIdle

SpecInfer == InferInit /\ [][InferNext]_vars

MissingMarkers ==
    { <<>>, <<"N", "A">>, <<"N", "/", "A">>, <<"n", "a">>, <<"-">>,
      <<"n", "u", "l", "l">>, <<"N", "o", "n", "e">>, <<"n", "a", "n">> }

IsMissingAsClaimed(c) == IsNull(c) \/ (c.k = "text" /\ c.s \in MissingMarkers)

IsPresentAsClaimed(c) == ~IsMissingAsClaimed(c)

ClaimedType(series) ==
    IF SelectSeq(series, IsPresentAsClaimed) = <<>> THEN "unknown"
    ELSE IF NUMERIC_PATTERN(StrOf(SelectSeq(series, IsPresentAsClaimed)[1])) THEN "numeric"
    ELSE IF DATE_PATTERN(StrOf(SelectSeq(series, IsPresentAsClaimed)[1])) THEN "date"
    ELSE "text"

\* C10: the type of a column is that of its first cell that is neither Null
\* nor one of "", "NA", "N/A", "na", "-", "null", "None", "nan": unknown when
\* there is none, numeric for an optionally signed integer or decimal, date
\* when it starts with YYYY-MM-DD, text otherwise; and no cell is changed.
C10_TypeFromFirstPresentCell ==
    istatus = "returned" =>
        /\ idf = idf0
        /\ \A j \in DOMAIN idf.columns : dtypes[j] = ClaimedType(idf.data[j])

-----------------------------------------------------------------------------
(* Properties of the jobs that fill, handle outliers, cast and scale *)

OneJobReturned(m) == pstatus = "returned" /\ mapping = <<m>>

Before == src0.data[1]

After == presult.data[1]

\* C11: after a Fill-Missing job with strategy constant and a fill value,
\* no cell of the target column is missing (Null or a MissingMarker
\* literal), and every cell that was not missing has the value it had.
C11_ConstantFillLeavesNoMissing ==
    OneJobReturned(MissingJob(<<ColA>>, <<"constant">>, <<IntCell(0)>>)) =>
        \A i \in DOMAIN Before :
            /\ ~IsMissingAsClaimed(After[i])
            /\ ~IsMissingAsClaimed(Before[i]) => After[i] = Before[i]

\* the same value, whether it is written as text or held as a number
SameValue(a, b) ==
    \/ a = b
    \/ /\ ~IsNull(NumericOf(a))
       /\ ~IsNull(NumericOf(b))
       /\ Hundredths(NumericOf(a)) = Hundredths(NumericOf(b))

ClaimedPresent(series) == ValuesOf(MapSeq(SelectSeq(series, IsPresentAsClaimed), NumericOf))

\* C12: Fill-Missing with strategy mean or median changes only the cells
\* that were missing: a cell that held a value, a text in a numeric column
\* included, holds the same value afterwards, and a filled cell holds the
\* mean or the median of the values that were not missing.
C12_MeanFillKeepsPresentCells ==
    /\ OneJobReturned(MissingJob(<<ColA>>, <<"mean">>, <<>>)) =>
          \A i \in DOMAIN Before :
              IF IsMissingAsClaimed(Before[i])
              THEN ClaimedPresent(Before) # <<>> =>
                      After[i] = FloatCell(Mean(ClaimedPresent(Before)))
              ELSE SameValue(After[i], Before[i])
    /\ OneJobReturned(MissingJob(<<ColA>>, <<"median">>, <<>>)) =>
          \A i \in DOMAIN Before :
              IF IsMissingAsClaimed(Before[i])
              THEN ClaimedPresent(Before) # <<>> =>
                      After[i] = FloatCell(Median(ClaimedPresent(Before)))
              ELSE SameValue(After[i], Before[i])

\* C13: Fill-Missing with strategy mode fills every missing cell with the
\* most frequent value of the column, and among several most frequent
\* values with the one that comes first in row order.
C13_ModeFillFirstSeen ==
    (OneJobReturned(MissingJob(<<ColA>>, <<"mode">>, <<>>))
            /\ SelectSeq(Before, NotNull) # <<>>) =>
        After = FillWith(Before, FirstSeenMode(SelectSeq(Before, NotNull),
                                               Modes(SelectSeq(Before, NotNull))))

ZscoreJob(m) == m.trans_type = "outlier" /\ JobMethod(m) = "zscore"

\* the deviation of the column is zero, or there is none
NoDeviation(series) ==
    ValuesOf(to_numeric(series)) = <<>> \/ Std(ValuesOf(to_numeric(series))) <= 0

ClipJob(m) == m.trans_type = "outlier" /\ JobReplace(m) = "clip"

ClaimedLower(v, method, threshold) ==
    IF method = "iqr"
    THEN Quantile(v, 1) - threshold * (Quantile(v, 3) - Quantile(v, 1))
    ELSE Mean(v) - threshold * Std(v)

ClaimedUpper(v, method, threshold) ==
    IF method = "iqr"
    THEN Quantile(v, 3) + threshold * (Quantile(v, 3) - Quantile(v, 1))
    ELSE Mean(v) + threshold * Std(v)

ClippedCell(c, lower, upper) ==
    IF IsNull(c) THEN NaN
    ELSE IF Hundredths(c) < lower THEN FloatCell(lower)
    ELSE IF Hundredths(c) > upper THEN FloatCell(upper)
    ELSE c

InBounds(c, lower, upper) == IsNull(c) \/ (lower <= Hundredths(c) /\ Hundredths(c) <= upper)

ClipHolds(numeric, after, lower, upper) ==
    \A i \in DOMAIN numeric :
        /\ InBounds(after[i], lower, upper)
        /\ SameValue(after[i], ClippedCell(numeric[i], lower, upper))
              \/ (IsNull(after[i]) /\ IsNull(numeric[i]))

\* C15: Handle-Outlier with replace clip puts each flagged cell on the
\* nearest bound and leaves the others as they are, so that afterwards
\* every non-null cell lies between the bounds, which are
\* Q1 - threshold*IQR and Q3 + threshold*IQR for iqr and
\* mean -/+ threshold*stddev for zscore, of the column before the job.
C15_ClipWithinBounds ==
    (pstatus = "returned" /\ Len(mapping) = 1 /\ ClipJob(mapping[1]) /\ ~NoDeviation(Before)) =>
        ClipHolds(to_numeric(Before), After,
                  ClaimedLower(ValuesOf(to_numeric(Before)), JobMethod(mapping[1]),
                               JobThreshold(mapping[1])),
                  ClaimedUpper(ValuesOf(to_numeric(Before)), JobMethod(mapping[1]),
                               JobThreshold(mapping[1])))

C15_Witness ==
    /\ OneJobReturned(OutlierJob(<<ColA>>, <<"iqr">>, <<"clip">>, <<1>>))
    /\ Before = <<T(<<"1">>), T(<<"2">>), T(<<"3">>), T(<<"4">>), T(<<"1", "0", "0">>)>>
    /\ After = <<FloatCell(100), FloatCell(200), FloatCell(300), FloatCell(400), FloatCell(600)>>

FloatThenScale(dec) ==
    /\ pstatus = "returned"
    /\ mapping = <<Job("float", <<ColA>>, dec, <<>>, <<>>), ScaleByOne>>

RoundedOriginal(c, decimals) ==
    IF IsNull(c) THEN NaN
    ELSE IF c.k = "float" THEN FloatCell(RoundHalfEven(c.n, decimals))
    ELSE c

\* C16: Cast-Float(decimals) followed by Scale(mul, 1) gives, for every
\* cell that is a number, the original value rounded to `decimals` places,
\* and a cell that is Null after the cast stays Null.
C16_FloatThenScaleByOne ==
    /\ FloatThenScale(<<1>>) =>
          \A i \in DOMAIN Before : After[i] = RoundedOriginal(to_numeric(Before)[i], 1)
    /\ FloatThenScale(<<>>) =>
          \A i \in DOMAIN Before : After[i] = RoundedOriginal(to_numeric(Before)[i], 4)

C16_Witness ==
    /\ FloatThenScale(<<1>>)
    /\ Before = <<T(<<"1", ".", "2", "5">>), T(<<"2", ".", "5">>), NaN>>
    /\ After = <<FloatCell(120), FloatCell(250), NaN>>

-----------------------------------------------------------------------------
(* combine_df(df1, df2, mapping): pd.concat of the two frames under         *)
(* upper-cased labels, or an inner DataFrame.merge on text keys.            *)

NRows(frame) == IF frame.data = <<>> THEN 0 ELSE Len(frame.data[1])

HasColumn(frame, c) == c \in Range(frame.columns)

ColumnOf(frame, c) == frame.data[IndexIn(frame.columns, c)]

RECURSIVE Without(_, _)
Without(seq, set) ==
    IF seq = <<>> THEN <<>>
    ELSE (IF seq[1] \in set THEN <<>> ELSE <<seq[1]>>) \o Without(Tail(seq), set)

NormalisedColumns_strip_only(columns) == [i \in DOMAIN columns |-> Strip(columns[i])]

\* [str(c).strip().upper() for c in a.columns]
NormalisedColumns(columns) == [i \in DOMAIN columns |-> Upper(Strip(columns[i]))]

Renamed(frame) == [frame EXCEPT !.columns = NormalisedColumns(@)]

\* the labels of pd.concat(sort=False): those of the first frame, then the
\* labels only the second has
UnionColumns(x, y) == x \o Without(y, Range(x))

\* the rows a frame gives to a column of the result: NaN where it has none
PartOf(frame, c) ==
    IF HasColumn(frame, c) THEN ColumnOf(frame, c) ELSE [i \in 1..NRows(frame) |-> NaN]

\* the common dtype of the stacked blocks: int64 stacked with float64 or
\* with NaN is float64
Stacked(cells) ==
    IF /\ \A i \in DOMAIN cells : cells[i].k \in {"int", "float", "nan"}
       /\ \E i \in DOMAIN cells : cells[i].k # "int"
    THEN AsFloat64(cells)
    ELSE cells

ConcatOver(x, y, labels) ==
    [columns |-> labels,
     data |-> [i \in DOMAIN labels |-> Stacked(PartOf(x, labels[i]) \o PartOf(y, labels[i]))]]

\* pd.concat([a, b], axis=0, ignore_index=True, sort=False)
Concat(x, y) == ConcatOver(x, y, UnionColumns(x.columns, y.columns))

\* a[col] = None for a key the frame lacks
WithKey(frame, col) ==
    IF HasColumn(frame, col) THEN frame
    ELSE [columns |-> Append(frame.columns, col),
          data |-> Append(frame.data, [i \in 1..NRows(frame) |-> NoneCell])]

RECURSIVE WithKeys(_, _)
WithKeys(frame, on_cols) ==
    IF on_cols = <<>> THEN frame ELSE WithKeys(WithKey(frame, on_cols[1]), Tail(on_cols))

KeyText_no_strip(c) == TextCell(StrOf(c))

\* one element of a[c].astype(str).str.strip()
KeyText(c) == TextCell(Strip(StrOf(c)))

TextKeys(frame, on_cols) ==
    [frame EXCEPT !.data =
        [i \in DOMAIN frame.columns |->
            IF frame.columns[i] \in Range(on_cols)
            THEN [r \in DOMAIN frame.data[i] |-> KeyText(frame.data[i][r])]
            ELSE frame.data[i]]]

KeysMatch(x, y, on, i, j) ==
    \A k \in DOMAIN on : ColumnOf(x, on[k])[i] = ColumnOf(y, on[k])[j]

\* the row pairs of how="inner", sort=False: the left rows in their order,
\* and for each the matching right rows in theirs
RECURSIVE JoinPairs(_, _, _, _, _)
JoinPairs(x, y, on, i, j) ==
    IF i > NRows(x) THEN <<>>
    ELSE IF j > NRows(y) THEN JoinPairs(x, y, on, i + 1, 1)
    ELSE (IF KeysMatch(x, y, on, i, j) THEN <<<<i, j>>>> ELSE <<>>)
            \o JoinPairs(x, y, on, i, j + 1)

Overlaps(c, x, y, on) == c \notin Range(on) /\ HasColumn(x, c) /\ HasColumn(y, c)

Suffixed(c, x, y, on, suffix) == IF Overlaps(c, x, y, on) THEN c \o suffix ELSE c

Gathered(column, pairs, side) == [k \in DOMAIN pairs |-> column[pairs[k][side]]]

JoinedFrame(x, y, on, pairs, kept) ==
    [columns |-> [i \in DOMAIN x.columns |-> Suffixed(x.columns[i], x, y, on, <<"_", "L">>)]
                    \o [i \in DOMAIN kept |-> Suffixed(kept[i], x, y, on, <<"_", "R">>)],
     data |-> [i \in DOMAIN x.columns |-> Gathered(x.data[i], pairs, 1)]
                    \o [i \in DOMAIN kept |-> Gathered(ColumnOf(y, kept[i]), pairs, 2)]]

JoinOn(x, y, on) ==
    JoinedFrame(x, y, on, JoinPairs(x, y, on, 1, 1), Without(y.columns, Range(on)))

CommonColumns(x, y) == Without(x.columns, Range(x.columns) \ Range(y.columns))

PandasMerge_on_common(x, y, on) ==
    [ok |-> TRUE,
     frame |-> IF on = <<>> THEN JoinOn(x, y, CommonColumns(x, y)) ELSE JoinOn(x, y, on)]

\* a.merge(b, on=on_cols, suffixes=("_L", "_R")); with an empty list of
\* keys pandas has no key array to join on and raises
PandasMerge(x, y, on) ==
    IF on = <<>> THEN [ok |-> FALSE, frame |-> NoTable]
    ELSE [ok |-> TRUE, frame |-> JoinOn(x, y, on)]

KeyID == <<"I", "D">>

ColV == <<"V">>

ColW == <<"W">>

LeftFrames ==
    { [columns |-> <<KeyID>>, data |-> <<<<IntCell(1), IntCell(2)>>>>],
      [columns |-> <<KeyID, ColV>>,
       data |-> <<<<T(<<" ", "2">>), T(<<"3">>), T(<<"2">>)>>,
                  <<IntCell(5), IntCell(6), IntCell(7)>>>>],
      [columns |-> <<<<"i", "d">>, ColW>>,
       data |-> <<<<IntCell(2)>>, <<T(<<"x">>)>>>>],
      [columns |-> <<ColV, KeyID>>,
       data |-> <<<<IntCell(9), IntCell(5)>>, <<FloatCell(200), IntCell(2)>>>>] }

RightFrames ==
    { [columns |-> <<KeyID, ColV>>,
       data |-> <<<<IntCell(2), IntCell(3)>>, <<IntCell(9), IntCell(8)>>>>],
      [columns |-> <<KeyID, ColV>>,
       data |-> <<<<T(<<"2", " ">>), T(<<"2">>)>>, <<IntCell(5), IntCell(9)>>>>],
      [columns |-> <<ColV>>, data |-> <<<<IntCell(7)>>>>],
      [columns |-> <<<<" ", "v", " ">>, KeyID>>,
       data |-> <<<<FloatCell(150)>>, <<IntCell(3)>>>>] }

CombineJob(method, on) == [method |-> method, on |-> on]

MethodMerge == <<"m", "e", "r", "g", "e">>

MethodConcat == <<"c", "o", "n", "c", "a", "t">>

CombineMappings ==
    { CombineJob(MethodConcat, <<>>),
      CombineJob(<<"C", "o", "n", "c", "a", "t">>, <<>>),
      CombineJob(<<"j", "o", "i", "n">>, <<>>),
      CombineJob(MethodMerge, <<>>),
      CombineJob(MethodMerge, <<<<>>>>),
      CombineJob(MethodMerge, <<<<KeyID>>>>),
      CombineJob(<<"M", "e", "r", "g", "e">>, <<<<KeyID, ColV>>>>),
      CombineJob(MethodMerge, <<<<ColW>>>>) }

CombineStart ==
    /\ df1 \in LeftFrames
    /\ df2 \in RightFrames
    /\ cmapping = <<>>
    /\ ca = NoTable
    /\ cb = NoTable
    /\ cstatus = "idle"
    /\ cresult = NoTable

CombineCall ==
    /\ cstatus = "idle"
    /\ \E m \in CombineMappings : cmapping' = <<m>>
    /\ cstatus' = "called"
    /\ UNCHANGED <<df1, df2, ca, cb, cresult>>
    /\ UNCHANGED CombineOthers

\* method = mapping[0]["method"].lower()
MethodOf(m) == Lower(m[1].method)

CombineConcat ==
    /\ cstatus = "called"
    /\ MethodOf(cmapping) = MethodConcat
    /\ ca' = Renamed(df1)
    /\ cb' = Renamed(df2)
    /\ cresult' = Concat(Renamed(df1), Renamed(df2))
    /\ cstatus' = "returned"
    /\ UNCHANGED <<df1, df2, cmapping>>
    /\ UNCHANGED CombineOthers

\* "on" not in mapping[0]: ValueError
MergeWithoutOn ==
    /\ cstatus = "called"
    /\ MethodOf(cmapping) = MethodMerge
    /\ cmapping[1].on = <<>>
    /\ ca' = df1
    /\ cb' = df2
    /\ cstatus' = "raised"
    /\ UNCHANGED <<df1, df2, cmapping, cresult>>
    /\ UNCHANGED CombineOthers

\* the two loops over on_cols: the missing keys, then the keys as text
MergeKeys ==
    /\ cstatus = "called"
    /\ MethodOf(cmapping) = MethodMerge
    /\ cmapping[1].on # <<>>
    /\ ca' = TextKeys(WithKeys(df1, cmapping[1].on[1]), cmapping[1].on[1])
    /\ cb' = TextKeys(WithKeys(df2, cmapping[1].on[1]), cmapping[1].on[1])
    /\ cstatus' = "joining"
    /\ UNCHANGED <<df1, df2, cmapping, cresult>>
    /\ UNCHANGED CombineOthers

MergeJoin ==
    /\ cstatus = "joining"
    /\ cresult' = PandasMerge(ca, cb, cmapping[1].on[1]).frame
    /\ cstatus' = IF PandasMerge(ca, cb, cmapping[1].on[1]).ok THEN "returned" ELSE "raised"
    /\ UNCHANGED <<df1, df2, cmapping, ca, cb>>
    /\ UNCHANGED CombineOthers

\* neither branch of the if/elif: the function returns None
CombineNoBranch ==
    /\ cstatus = "called"
    /\ MethodOf(cmapping) \notin {MethodConcat, MethodMerge}
    /\ cstatus' = "returned"
    /\ UNCHANGED <<df1, df2, cmapping, ca, cb, cresult>>
    /\ UNCHANGED CombineOthers

CombineNext ==
    \/ CombineCall
    \/ CombineConcat
    \/ MergeWithoutOn
    \/ MergeKeys
    \/ MergeJoin
    \/ CombineNoBranch

CombineInit ==
    CombineStart /\ PipelineIdle /\ ResolverIdle /\ NamesIdle /\ InferIdle /\ DiffIdle /\ PreviewIdle /\ BatchIdle /\ UmIdle /\ NotesIdle

SpecCombine == CombineInit /\ [][CombineNext]_vars

-----------------------------------------------------------------------------
(* Properties of combine_df *)

Merged == cstatus \in {"returned", "raised"} /\ MethodOf(cmapping) = MethodMerge

JoinedOn(on) == cstatus = "returned" /\ MethodOf(cmapping) = MethodMerge /\ cmapping[1].on = <<on>>

\* the key of a row as trimmed text; a key column the side lacks is Null
ClaimedKey(frame, c, i) ==
    IF HasColumn(frame, c) THEN Strip(StrOf(ColumnOf(frame, c)[i])) ELSE Strip(StrOf(NoneCell))

ClaimedPairs(on) ==
    {p \in (1..NRows(df1)) \X (1..NRows(df2)) :
        \A k \in DOMAIN on : ClaimedKey(df1, on[k], p[1]) = ClaimedKey(df2, on[k], p[2])}

PairBefore(q, p) == q[1] < p[1] \/ (q[1] = p[1] /\ q[2] < p[2])

\* the place of a pair in left-major, right-minor order
PlaceOf(p, pairs) == 1 + Cardinality({q \in pairs : PairBefore(q, p)})

ClaimedName(c, on, suffix) ==
    IF c \notin Range(on) /\ HasColumn(df1, c) /\ HasColumn(df2, c) THEN c \o suffix ELSE c

ResultHolds(name, place, value) ==
    /\ HasColumn(cresult, name)
    /\ place \in DOMAIN ColumnOf(cresult, name)
    /\ SameValue(ColumnOf(cresult, name)[place], value)

MergeHolds(on, pairs) ==
    /\ NRows(cresult) = Cardinality(pairs)
    /\ \A p \in pairs :
          /\ \A k \in DOMAIN on :
                ResultHolds(on[k], PlaceOf(p, pairs), TextCell(ClaimedKey(df1, on[k], p[1])))
          /\ \A i \in DOMAIN df1.columns :
                df1.columns[i] \notin Range(on) =>
                    ResultHolds(ClaimedName(df1.columns[i], on, <<"_", "L">>),
                                PlaceOf(p, pairs), df1.data[i][p[1]])
          /\ \A i \in DOMAIN df2.columns :
                df2.columns[i] \notin Range(on) =>
                    ResultHolds(ClaimedName(df2.columns[i], on, <<"_", "R">>),
                                PlaceOf(p, pairs), df2.data[i][p[2]])

\* C17: merge(left, right, on) returns exactly the row pairs whose keys are
\* equal as trimmed text on every key column, in left-major, right-minor
\* order, and a non-key column name that both sides have is given the
\* suffix _L on the left and _R on the right.
C17_MergeInnerOnTextKeys ==
    \A on \in {<<KeyID>>, <<KeyID, ColV>>, <<ColW>>} :
        JoinedOn(on) => MergeHolds(on, ClaimedPairs(on))

C17_Witness ==
    /\ JoinedOn(<<KeyID>>)
    /\ df1 = [columns |-> <<KeyID>>, data |-> <<<<IntCell(1), IntCell(2)>>>>]
    /\ df2 = [columns |-> <<KeyID, ColV>>,
              data |-> <<<<IntCell(2), IntCell(3)>>, <<IntCell(9), IntCell(8)>>>>]
    /\ cresult = [columns |-> <<KeyID, ColV>>,
                  data |-> <<<<T(<<"2">>)>>, <<IntCell(9)>>>>]

NoJoinKeys == cmapping[1].on = <<>> \/ cmapping[1].on = <<<<>>>>

\* C18: merge with an empty list of keys, or with no list of keys, ends in
\* an error and produces no table: it does not join on other columns.
C18_MergeWithoutKeysIsError ==
    (Merged /\ NoJoinKeys) => (cstatus = "raised" /\ cresult = NoTable)

C18_Witness ==
    /\ cstatus = "raised"
    /\ cmapping[1].on = <<<<>>>>
    /\ NRows(df1) > 0
    /\ cresult = NoTable

Concatenated == cstatus = "returned" /\ MethodOf(cmapping) = MethodConcat

ClaimedLabels(frame) == [i \in DOMAIN frame.columns |-> Upper(Strip(frame.columns[i]))]

\* the rows of one input in the result, from the row after `offset`
BlockHolds(frame, labels, offset) ==
    \A c \in Range(cresult.columns) :
        \A r \in 1..NRows(frame) :
            IF c \in Range(labels)
            THEN SameValue(ColumnOf(cresult, c)[offset + r], frame.data[IndexIn(labels, c)][r])
            ELSE IsNull(ColumnOf(cresult, c)[offset + r])

\* C19: concat returns a table whose columns are the union of the
\* normalised column names of the inputs, whose rows are those of the first
\* input followed by those of the second (the row count is the sum), a cell
\* of a column an input lacks being Null on that input's rows and every
\* other cell keeping its value.
C19_ConcatUnionOfColumns ==
    Concatenated =>
        /\ Range(cresult.columns) = Range(ClaimedLabels(df1)) \cup Range(ClaimedLabels(df2))
        /\ Injective(cresult.columns)
        /\ \A i \in DOMAIN cresult.data : Len(cresult.data[i]) = NRows(df1) + NRows(df2)
        /\ BlockHolds(df1, ClaimedLabels(df1), 0)
        /\ BlockHolds(df2, ClaimedLabels(df2), NRows(df1))

C19_Witness ==
    /\ Concatenated
    /\ df1.columns = <<<<"i", "d">>, ColW>>
    /\ df2.columns = <<<<" ", "v", " ">>, KeyID>>
    /\ cresult = [columns |-> <<KeyID, ColW, ColV>>,
                  data |-> <<<<IntCell(2), IntCell(3)>>, <<T(<<"x">>), NaN>>,
                             <<NaN, FloatCell(150)>>>>]

-----------------------------------------------------------------------------
(* CSVProcessor.write_diff_report(df1, df2, mapping), for one entry m of    *)
(* the mapping: the two sheets, the columns to compare, one step per cell   *)
(* of the two nested loops, the save, the summary sheet.                    *)

ColX == <<"X">>

ColY == <<"Y">>

OneColumn(name, cells) == [columns |-> <<name>>, data |-> <<cells>>]

TwoColumns(n1, c1, n2, c2) == [columns |-> <<n1, n2>>, data |-> <<c1, c2>>]

DiffPairs ==
    { <<OneColumn(ColX, <<IntCell(1), IntCell(2)>>), OneColumn(ColX, <<IntCell(1), IntCell(5)>>)>>,
      <<OneColumn(ColX, <<IntCell(1), IntCell(2)>>), OneColumn(ColX, <<IntCell(1), IntCell(2)>>)>>,
      <<OneColumn(ColX, <<FloatCell(200), NaN>>), OneColumn(ColX, <<FloatCell(150), FloatCell(300)>>)>>,
      <<TwoColumns(ColX, <<T(<<"a">>), T(<<"b">>)>>, ColY, <<IntCell(1), IntCell(1)>>),
        TwoColumns(ColX, <<T(<<"b">>), T(<<"a">>)>>, ColY, <<IntCell(1), IntCell(2)>>)>>,
      <<OneColumn(ColX, <<IntCell(1)>>), OneColumn(ColX, <<T(<<"a">>)>>)>>,
      <<OneColumn(ColX, <<T(<<"-">>)>>), OneColumn(ColX, <<T(<<"x">>)>>)>>,
      <<OneColumn(ColX, <<IntCell(1), IntCell(2)>>), OneColumn(ColX, <<IntCell(1)>>)>>,
      <<OneColumn(ColX, <<IntCell(1)>>), OneColumn(ColY, <<IntCell(1)>>)>>,
      <<TwoColumns(ColY, <<IntCell(1)>>, ColX, <<IntCell(3)>>),
        TwoColumns(ColX, <<IntCell(4)>>, ColY, <<IntCell(1)>>)>> }

SelectedColumns == {<<>>, <<ColX>>, <<ColX, ColX>>, <<ColX, ColZ>>}

DiffStart ==
    /\ \E p \in DiffPairs : ddf1 = p[1] /\ ddf2 = p[2]
    /\ selected \in SelectedColumns
    /\ target_cols = <<>>
    /\ dc = 1
    /\ dr = 0
    /\ diffs = <<>>
    /\ fills = {}
    /\ sheets = <<>>
    /\ dstatus = "idle"

\* the first ExcelWriter block, with the default sheet suffixes _1 and _2
WriteSheets ==
    /\ dstatus = "idle"
    /\ sheets' = <<"DataFrame__1", "DataFrame__2">>
    /\ dstatus' = "written"
    /\ UNCHANGED <<ddf1, ddf2, selected, target_cols, dc, dr, diffs, fills>>
    /\ UNCHANGED DiffOthers

InBoth(col) == HasColumn(ddf1, col) /\ HasColumn(ddf2, col)

RECURSIVE Unique(_)
Unique(seq) ==
    IF seq = <<>> THEN <<>> ELSE <<seq[1]>> \o Without(Unique(Tail(seq)), {seq[1]})

\* the columns compared: the selected ones in their order, once each, or
\* the columns of df1 that df2 has
TargetOf(sel) ==
    IF sel # <<>> THEN Unique(sel) ELSE Without(ddf1.columns, Range(ddf1.columns) \ Range(ddf2.columns))

\* a selected column that one of the frames lacks: ValueError
ColumnsNotFound ==
    /\ dstatus = "written"
    /\ \E i \in DOMAIN selected : ~InBoth(selected[i])
    /\ dstatus' = "raised"
    /\ UNCHANGED <<ddf1, ddf2, selected, target_cols, dc, dr, diffs, fills, sheets>>
    /\ UNCHANGED DiffOthers

\* not target_cols: ValueError
NoComparableColumns ==
    /\ dstatus = "written"
    /\ \A i \in DOMAIN selected : InBoth(selected[i])
    /\ TargetOf(selected) = <<>>
    /\ dstatus' = "raised"
    /\ UNCHANGED <<ddf1, ddf2, selected, target_cols, dc, dr, diffs, fills, sheets>>
    /\ UNCHANGED DiffOthers

TargetColumns ==
    /\ dstatus = "written"
    /\ \A i \in DOMAIN selected : InBoth(selected[i])
    /\ TargetOf(selected) # <<>>
    /\ target_cols' = TargetOf(selected)
    /\ dc' = 1
    /\ dr' = 0
    /\ dstatus' = "comparing"
    /\ UNCHANGED <<ddf1, ddf2, selected, diffs, fills, sheets>>
    /\ UNCHANGED DiffOthers

AtCell == dstatus = "comparing" /\ dc <= Len(target_cols) /\ dr < NRows(ddf1)

\* val1 = df1.iloc[r][col]
Val1 == ColumnOf(ddf1, target_cols[dc])[dr + 1]

\* val2 = df2.iloc[r][col]
Val2 == ColumnOf(ddf2, target_cols[dc])[dr + 1]

IsNumber(c) == c.k \in {"int", "float", "bool"}

\* val1 != val2
Unequal(v, w) ==
    IF IsNumber(v) /\ IsNumber(w) THEN Hundredths(v) # Hundredths(w) ELSE v # w

\* whether val2 > val1 is defined: numbers with numbers, str with str
Ordered(v, w) == (IsNumber(v) /\ IsNumber(w)) \/ (v.k = "text" /\ w.k = "text")

\* val2 > val1
Greater(w, v) == IF IsNumber(v) THEN Hundredths(w) > Hundredths(v) ELSE TextLess(v.s, w.s)

\* pd.notna(val1) and pd.notna(val2) and val1 != val2
Differs(v, w) == NotNull(v) /\ NotNull(w) /\ Unequal(v, w)

\* col_idx = df2.columns.get_loc(col) + 1
ColIdx == IndexIn(ddf2.columns, target_cols[dc])

DiffEntry(change) ==
    [Row |-> dr + 2, Column |-> target_cols[dc], Old |-> Val1, New |-> Val2, Change |-> change]

\* the next pair of the two nested loops
Advance ==
    /\ dr' = IF dr + 1 < NRows(ddf1) THEN dr + 1 ELSE 0
    /\ dc' = IF dr + 1 < NRows(ddf1) THEN dc ELSE dc + 1

\* df2.iloc[r] beyond the last row of df2: IndexError
RowOutOfBounds ==
    /\ AtCell
    /\ dr >= NRows(ddf2)
    /\ dstatus' = "raised"
    /\ UNCHANGED <<ddf1, ddf2, selected, target_cols, dc, dr, diffs, fills, sheets>>
    /\ UNCHANGED DiffOthers

CellSkipped ==
    /\ AtCell
    /\ dr < NRows(ddf2)
    /\ ~Differs(Val1, Val2)
    /\ Advance
    /\ UNCHANGED <<ddf1, ddf2, selected, target_cols, diffs, fills, sheets, dstatus>>
    /\ UNCHANGED DiffOthers

\* val2 > val1 between a str and a number: TypeError
CellNotOrdered ==
    /\ AtCell
    /\ dr < NRows(ddf2)
    /\ Differs(Val1, Val2)
    /\ ~Ordered(Val1, Val2)
    /\ dstatus' = "raised"
    /\ UNCHANGED <<ddf1, ddf2, selected, target_cols, dc, dr, diffs, fills, sheets>>
    /\ UNCHANGED DiffOthers

CellChanged_prepend(colour, change) ==
    /\ fills' = {f \in fills : <<f[1], f[2]>> # <<dr + 2, ColIdx>>} \cup {<<dr + 2, ColIdx, colour>>}
    /\ diffs' = <<DiffEntry(change)>> \o diffs
    /\ Advance
    /\ UNCHANGED <<ddf1, ddf2, selected, target_cols, sheets, dstatus>>
    /\ UNCHANGED DiffOthers

CellChanged(colour, change) ==
    /\ fills' = {f \in fills : <<f[1], f[2]>> # <<dr + 2, ColIdx>>} \cup {<<dr + 2, ColIdx, colour>>}
    /\ diffs' = Append(diffs, DiffEntry(change))
    /\ Advance
    /\ UNCHANGED <<ddf1, ddf2, selected, target_cols, sheets, dstatus>>
    /\ UNCHANGED DiffOthers

CellUp ==
    /\ AtCell
    /\ dr < NRows(ddf2)
    /\ Differs(Val1, Val2)
    /\ Ordered(Val1, Val2)
    /\ Greater(Val2, Val1)
    /\ CellChanged("FFFF00", "Up")

CellDown ==
    /\ AtCell
    /\ dr < NRows(ddf2)
    /\ Differs(Val1, Val2)
    /\ Ordered(Val1, Val2)
    /\ ~Greater(Val2, Val1)
    /\ CellChanged("00FF00", "Down")

\* wb.save(out_file), after the loops
SaveWorkbook ==
    /\ dstatus = "comparing"
    /\ ~AtCell
    /\ dstatus' = "saved"
    /\ UNCHANGED <<ddf1, ddf2, selected, target_cols, dc, dr, diffs, fills, sheets>>
    /\ UNCHANGED DiffOthers

\* if diffs: the sheet "Diff Summary" is appended
WriteSummary ==
    /\ dstatus = "saved"
    /\ diffs # <<>>
    /\ sheets' = Append(sheets, "Diff Summary")
    /\ dstatus' = "returned"
    /\ UNCHANGED <<ddf1, ddf2, selected, target_cols, dc, dr, diffs, fills>>
    /\ UNCHANGED DiffOthers

NoSummary ==
    /\ dstatus = "saved"
    /\ diffs = <<>>
    /\ dstatus' = "returned"
    /\ UNCHANGED <<ddf1, ddf2, selected, target_cols, dc, dr, diffs, fills, sheets>>
    /\ UNCHANGED DiffOthers

DiffNext ==
    \/ WriteSheets
    \/ ColumnsNotFound
    \/ NoComparableColumns
    \/ TargetColumns
    \/ RowOutOfBounds
    \/ CellSkipped
    \/ CellNotOrdered
    \/ CellUp
    \/ CellDown
    \/ SaveWorkbook
    \/ WriteSummary
    \/ NoSummary

DiffInit ==
    DiffStart /\ PipelineIdle /\ ResolverIdle /\ NamesIdle /\ InferIdle /\ CombineIdle /\ PreviewIdle /\ BatchIdle /\ UmIdle /\ NotesIdle

SpecDiff == DiffInit /\ [][DiffNext]_vars

-----------------------------------------------------------------------------
(* Properties of write_diff_report *)

\* the call is over, and it was made as the diff contract requires: frames
\* of the same row count, columns that both frames have
DiffOver ==
    /\ dstatus \in {"returned", "raised"}
    /\ NRows(ddf1) = NRows(ddf2)
    /\ \A i \in DOMAIN selected : InBoth(selected[i])
    /\ \E c \in Range(ddf1.columns) : HasColumn(ddf2, c)

ClaimedTargets == IF selected # <<>> THEN Range(selected) ELSE Range(ddf1.columns) \cap Range(ddf2.columns)

ClaimedChange(c, r) ==
    /\ IsPresentAsClaimed(ColumnOf(ddf1, c)[r + 1])
    /\ IsPresentAsClaimed(ColumnOf(ddf2, c)[r + 1])
    /\ ~SameValue(ColumnOf(ddf1, c)[r + 1], ColumnOf(ddf2, c)[r + 1])

Recorded(c, r) == \E k \in DOMAIN diffs : diffs[k].Row = r + 2 /\ diffs[k].Column = c

Coloured(c, r) == \E f \in fills : f[1] = r + 2 /\ f[2] = IndexIn(ddf2.columns, c)

SummarySheets == Len(SelectSeq(sheets, LAMBDA n : n = "Diff Summary"))

\* C20: the diff report has a DiffRecord, and a coloured cell in the sheet
\* of the second table, for a target column and a row exactly when both
\* values are non-missing and unequal; with no record the workbook has no
\* summary sheet, and with one or more it has exactly one.
C20_DiffRecordIffChanged ==
    DiffOver =>
        /\ dstatus = "returned"
        /\ \A c \in ClaimedTargets :
              \A r \in 0..(NRows(ddf1) - 1) :
                  /\ Recorded(c, r) <=> ClaimedChange(c, r)
                  /\ Coloured(c, r) <=> ClaimedChange(c, r)
        /\ SummarySheets = IF diffs = <<>> THEN 0 ELSE 1

\* C21: each DiffRecord carries the 0-based row index of the changed cell,
\* its column name, the old value (first table) and the new value (second
\* table) of that cell, and the direction Up when new > old, Down otherwise.
C21_RecordCarriesRowIndex ==
    dstatus = "returned" =>
        \A k \in DOMAIN diffs :
            /\ diffs[k].Row \in 0..(NRows(ddf1) - 1)
            /\ diffs[k].Column \in Range(target_cols)
            /\ diffs[k].Old = ColumnOf(ddf1, diffs[k].Column)[diffs[k].Row + 1]
            /\ diffs[k].New = ColumnOf(ddf2, diffs[k].Column)[diffs[k].Row + 1]
            /\ diffs[k].Change = IF Greater(diffs[k].New, diffs[k].Old) THEN "Up" ELSE "Down"

RecordBefore(d, e) ==
    \/ IndexIn(target_cols, d.Column) < IndexIn(target_cols, e.Column)
    \/ d.Column = e.Column /\ d.Row < e.Row

\* the cells of the target columns that the two frames hold with different,
\* non-null values
ChangedCells ==
    {p \in Range(target_cols) \X (0..(NRows(ddf1) - 1)) :
        Differs(ColumnOf(ddf1, p[1])[p[2] + 1], ColumnOf(ddf2, p[1])[p[2] + 1])}

ColourOf(change) == IF change = "Up" THEN "FFFF00" ELSE "00FF00"

\* C23: the DiffRecords are ordered by target column, in the order of the
\* target columns, and within a column by ascending row; the records and
\* the coloured cells are determined by the two frames and the columns, so
\* that a second run on the same inputs gives the same sequence and set.
C23_RecordsColumnThenRow ==
    /\ \A k, l \in DOMAIN diffs : k < l => RecordBefore(diffs[k], diffs[l])
    /\ (dstatus = "returned" /\ NRows(ddf1) = NRows(ddf2)) =>
          /\ {<<diffs[k].Column, diffs[k].Row - 2>> : k \in DOMAIN diffs} = ChangedCells
          /\ fills = {<<diffs[k].Row, IndexIn(ddf2.columns, diffs[k].Column),
                        ColourOf(diffs[k].Change)>> : k \in DOMAIN diffs}

C23_Witness ==
    /\ dstatus = "returned"
    /\ target_cols = <<ColX, ColY>>
    /\ Len(diffs) = 3
    /\ diffs[1].Column = ColX /\ diffs[1].Row = 2
    /\ diffs[2].Column = ColX /\ diffs[2].Row = 3
    /\ diffs[3].Column = ColY /\ diffs[3].Row = 3

-----------------------------------------------------------------------------
(* CSVProcessor.diff_highlight(df1, df2, mapping), for one entry m of the   *)
(* mapping: the columns, the sheet of the two stacked blocks, one step per  *)
(* cell of the two nested loops, the save.  It runs on the variables of     *)
(* write_diff_report; diffs stays empty.                                    *)

HighlightPairs ==
    { <<OneColumn(ColX, <<IntCell(1), IntCell(2)>>), OneColumn(ColX, <<IntCell(1), IntCell(5)>>)>>,
      <<OneColumn(ColX, <<FloatCell(200), NaN>>), OneColumn(ColX, <<FloatCell(150), FloatCell(300)>>)>>,
      <<OneColumn(ColX, <<IntCell(5)>>), OneColumn(ColX, <<NaN>>)>>,
      <<TwoColumns(ColX, <<T(<<"a">>), T(<<"b">>)>>, ColY, <<IntCell(1), IntCell(1)>>),
        TwoColumns(ColX, <<T(<<"b">>), T(<<"a">>)>>, ColY, <<IntCell(1), IntCell(2)>>)>>,
      <<OneColumn(ColX, <<IntCell(1)>>), OneColumn(ColX, <<IntCell(1), IntCell(7)>>)>>,
      <<OneColumn(ColX, <<T(<<"1", "0">>)>>), OneColumn(ColX, <<T(<<"9">>)>>)>>,
      <<OneColumn(ColX, <<IntCell(1)>>), OneColumn(ColY, <<IntCell(1)>>)>>,
      <<OneColumn(ColX, <<IntCell(1)>>), OneColumn(ColX, <<T(<<"a">>)>>)>>,
      <<TwoColumns(ColY, <<IntCell(1)>>, ColX, <<IntCell(3)>>),
        TwoColumns(ColX, <<IntCell(4)>>, ColZ, <<IntCell(1)>>)>> }

HighlightStart ==
    /\ \E p \in HighlightPairs : ddf1 = p[1] /\ ddf2 = p[2]
    /\ selected \in SelectedColumns
    /\ target_cols = <<>>
    /\ dc = 1
    /\ dr = 0
    /\ diffs = <<>>
    /\ fills = {}
    /\ sheets = <<>>
    /\ dstatus = "idle"

HlColumnsNotFound ==
    /\ dstatus = "idle"
    /\ \E i \in DOMAIN selected : ~InBoth(selected[i])
    /\ dstatus' = "raised"
    /\ UNCHANGED <<ddf1, ddf2, selected, target_cols, dc, dr, diffs, fills, sheets>>
    /\ UNCHANGED DiffOthers

HlNoComparableColumns ==
    /\ dstatus = "idle"
    /\ \A i \in DOMAIN selected : InBoth(selected[i])
    /\ TargetOf(selected) = <<>>
    /\ dstatus' = "raised"
    /\ UNCHANGED <<ddf1, ddf2, selected, target_cols, dc, dr, diffs, fills, sheets>>
    /\ UNCHANGED DiffOthers

\* combined.to_excel(out_file, index=False): one sheet, the rows of df1
\* then the rows of df2, under a first column Source
HlWriteCombined ==
    /\ dstatus = "idle"
    /\ \A i \in DOMAIN selected : InBoth(selected[i])
    /\ TargetOf(selected) # <<>>
    /\ target_cols' = TargetOf(selected)
    /\ sheets' = <<"Sheet1">>
    /\ dc' = 1
    /\ dr' = 0
    /\ dstatus' = "comparing"
    /\ UNCHANGED <<ddf1, ddf2, selected, diffs, fills>>
    /\ UNCHANGED DiffOthers

\* all_cols: the columns of df1, then those only df2 has
all_cols == ddf1.columns \o Without(ddf2.columns, Range(ddf1.columns))

\* common_cols: the columns of df1 that df2 has
common_cols == Without(ddf1.columns, Range(ddf1.columns) \ Range(ddf2.columns))

HlAtCell == dstatus = "comparing" /\ dc <= Len(common_cols) /\ dr < NRows(ddf2)

\* val1: np.nan beyond the last row of df1
HlVal1 == IF dr < NRows(ddf1) THEN ColumnOf(ddf1, common_cols[dc])[dr + 1] ELSE NaN

HlVal2 == ColumnOf(ddf2, common_cols[dc])[dr + 1]

\* pd.notna(val2) and (pd.isna(val1) or val1 != val2)
HlChanged(v, w) == NotNull(w) /\ (IsNull(v) \/ Unequal(v, w))

\* whether float(val) returns
FloatParses(c) == c.k # "text" \/ ~IsNull(NumericOf(c))

\* whether the fill is fill_down: by float() of both values, and by str()
\* of both when float() raises
FillDown(v, w) ==
    IF FloatParses(v) /\ FloatParses(w)
    THEN /\ ~IsNull(NumericOf(v))
         /\ ~IsNull(NumericOf(w))
         /\ Hundredths(NumericOf(w)) <= Hundredths(NumericOf(v))
    ELSE NotNull(v) /\ ~TextLess(StrOf(v), StrOf(w))

\* row_idx = start_row_df2 + i, col_idx = all_cols.index(col) + 2
HlCell == <<NRows(ddf1) + 2 + dr, IndexIn(all_cols, common_cols[dc]) + 1>>

HlAdvance ==
    /\ dr' = IF dr + 1 < NRows(ddf2) THEN dr + 1 ELSE 0
    /\ dc' = IF dr + 1 < NRows(ddf2) THEN dc ELSE dc + 1

HlCellSkipped ==
    /\ HlAtCell
    /\ ~HlChanged(HlVal1, HlVal2)
    /\ HlAdvance
    /\ UNCHANGED <<ddf1, ddf2, selected, target_cols, diffs, fills, sheets, dstatus>>
    /\ UNCHANGED DiffOthers

HlFill(colour) ==
    /\ fills' = fills \cup {<<HlCell[1], HlCell[2], colour>>}
    /\ HlAdvance
    /\ UNCHANGED <<ddf1, ddf2, selected, target_cols, diffs, sheets, dstatus>>
    /\ UNCHANGED DiffOthers

HlCellUp ==
    /\ HlAtCell
    /\ HlChanged(HlVal1, HlVal2)
    /\ ~FillDown(HlVal1, HlVal2)
    /\ HlFill("FFFF00")

HlCellDown ==
    /\ HlAtCell
    /\ HlChanged(HlVal1, HlVal2)
    /\ FillDown(HlVal1, HlVal2)
    /\ HlFill("00FF00")

HlSave ==
    /\ dstatus = "comparing"
    /\ ~HlAtCell
    /\ dstatus' = "returned"
    /\ UNCHANGED <<ddf1, ddf2, selected, target_cols, dc, dr, diffs, fills, sheets>>
    /\ UNCHANGED DiffOthers

HighlightNext ==
    \/ HlColumnsNotFound
    \/ HlNoComparableColumns
    \/ HlWriteCombined
    \/ HlCellSkipped
    \/ HlCellUp
    \/ HlCellDown
    \/ HlSave

HighlightInit ==
    HighlightStart /\ PipelineIdle /\ ResolverIdle /\ NamesIdle /\ InferIdle /\ CombineIdle /\ PreviewIdle /\ BatchIdle /\ UmIdle /\ NotesIdle

SpecHighlight == HighlightInit /\ [][HighlightNext]_vars

-----------------------------------------------------------------------------
(* Properties of diff_highlight *)

\* the value of the first table on the row of a cell of the second
OldValue(c, i) == IF i < NRows(ddf1) THEN ColumnOf(ddf1, c)[i + 1] ELSE NaN

\* the cell differs: the old value is absent or Null, or the two are not the same
ClaimedDiffers(old, new) == IsNull(old) \/ ~SameValue(old, new)

BothNumbers(old, new) == ~IsNull(NumericOf(old)) /\ ~IsNull(NumericOf(new))

ClaimedColour(old, new) ==
    IF BothNumbers(old, new)
    THEN (IF Hundredths(NumericOf(new)) <= Hundredths(NumericOf(old)) THEN "00FF00" ELSE "FFFF00")
    ELSE (IF ~TextLess(StrOf(old), StrOf(new)) THEN "00FF00" ELSE "FFFF00")

FillsAt(c, i) ==
    {f \in fills : f[1] = NRows(ddf1) + 2 + i /\ f[2] = IndexIn(all_cols, c) + 1}

\* C22: in highlight mode a cell of the block of the second table, in a
\* target column, is coloured exactly when its value differs from the value
\* of the first table on the same row, an absent or missing old value
\* always counting as a change; the colour is "down" when new <= old and
\* "up" otherwise, by number when both parse as numbers and else by the
\* texts; no cell outside the block of the second table is coloured.
C22_HighlightIffDiffers ==
    dstatus = "returned" =>
        /\ \A c \in Range(target_cols) :
              \A i \in 0..(NRows(ddf2) - 1) :
                  /\ FillsAt(c, i) # {} <=> ClaimedDiffers(OldValue(c, i), ColumnOf(ddf2, c)[i + 1])
                  /\ \A f \in FillsAt(c, i) :
                        NotNull(OldValue(c, i)) =>
                            f[3] = ClaimedColour(OldValue(c, i), ColumnOf(ddf2, c)[i + 1])
        /\ \A f \in fills : f[1] >= NRows(ddf1) + 2

-----------------------------------------------------------------------------
(* CSVProcessor.get_preview(binary, n, filename=...): the read through      *)
(* read_file_to_dataframe with nrows=n (one action per call of pd.read_csv, *)
(* or the read of the spreadsheet), then df.head(n) as a dict.              *)

MaxPreview == 2

PreviewLines ==
    { <<65, 44, 66>>,               \* A,B
      <<49, 44, 50>>,               \* 1,2
      <<51>>,                       \* 3
      <<49>>,                       \* 1
      <<228, 184, 173>> }           \* one character in UTF-8

PreviewBooks ==
    { [columns |-> <<ColA>>, data |-> <<<<IntCell(1), IntCell(2), IntCell(3)>>>>],
      [columns |-> <<ColA, ColB>>, data |-> <<<<T(<<"x">>)>>, <<NaN>>>>] }

\* name.endswith((".xls", ".xlsx")), of the names of the model
IsExcelName(name) == name \in {"book.xlsx", "BOOK.XLSX"}

PreviewStart ==
    /\ \/ /\ pv_name \in {"", "data.csv"}
          /\ \E ls \in SeqsUpTo(PreviewLines, MaxLines) : pv_binary = JoinLines(ls)
          /\ pv_book = NoTable
          /\ pv_openpyxl = TRUE
       \/ /\ pv_name \in {"book.xlsx", "BOOK.XLSX"}
          /\ pv_binary = <<>>
          /\ pv_book \in PreviewBooks
          /\ pv_openpyxl \in BOOLEAN
    /\ pv_n \in 0..MaxPreview
    /\ pv_pyarrow \in BOOLEAN
    /\ pv_i = 1
    /\ pv_phase = "idle"
    /\ pv_df = NoTable
    /\ pv_head = [columns |-> <<>>, rows |-> <<>>]

FirstRows(rows, k) == SubSeq(rows, 1, IF k < Len(rows) THEN k ELSE Len(rows))

\* pd.read_csv(bio, encoding=enc, engine=engine, nrows=nrows): the pyarrow
\* engine does not take nrows (ValueError); the C engine parses the header
\* and the first nrows rows only
read_csv_nrows(bytes, enc, engine, nrows) ==
    IF engine = "pyarrow" THEN ReadError("ValueError")
    ELSE IF ~Decode(bytes, enc).ok THEN ReadError("UnicodeDecodeError")
    ELSE CParse(FirstRows(TextRows(Decode(bytes, enc).text, ","), nrows + 1))

\* df.astype(str)
AsStr(frame) ==
    [frame EXCEPT !.data =
        [j \in DOMAIN frame.data |->
            [i \in DOMAIN frame.data[j] |-> TextCell(StrOf(frame.data[j][i]))]]]

\* {'columns': list(head.columns), 'rows': head.to_dict(orient='records')}
\* of head = df.head(k)
HeadDict(frame, k) ==
    [columns |-> frame.columns,
     rows |-> [i \in 1..(IF k < NRows(frame) THEN k ELSE NRows(frame)) |->
                  [j \in DOMAIN frame.columns |-> frame.data[j][i]]]]

PreviewCall ==
    /\ pv_phase = "idle"
    /\ ~IsExcelName(pv_name)
    /\ pv_phase' = "reading"
    /\ UNCHANGED <<pv_binary, pv_book, pv_name, pv_n, pv_pyarrow, pv_openpyxl, pv_i, pv_df, pv_head>>
    /\ UNCHANGED PreviewOthers

PvEncodings == <<"utf-8", "utf-8-sig", "gbk", "gb2312", "big5", "shift_jis", "cp1252", "latin1">>

PvEngine(i) == IF i <= Len(utf8_tries) /\ pv_pyarrow THEN "pyarrow" ELSE "c"

\* one call of pd.read_csv; a failure goes on to the next encoding, and the
\* failure of the last is raised
PvAttempt ==
    /\ IF read_csv_nrows(pv_binary, PvEncodings[pv_i], PvEngine(pv_i), pv_n).ok
       THEN /\ pv_df' = AsStr(read_csv_nrows(pv_binary, PvEncodings[pv_i], PvEngine(pv_i), pv_n).table)
            /\ pv_phase' = "read"
            /\ pv_i' = pv_i
       ELSE /\ pv_df' = pv_df
            /\ pv_phase' = IF pv_i = Len(PvEncodings) THEN "raised" ELSE "reading"
            /\ pv_i' = IF pv_i = Len(PvEncodings) THEN pv_i ELSE pv_i + 1
    /\ UNCHANGED <<pv_binary, pv_book, pv_name, pv_n, pv_pyarrow, pv_openpyxl, pv_head>>
    /\ UNCHANGED PreviewOthers

PvTryUtf8 ==
    /\ pv_phase = "reading"
    /\ pv_i <= Len(utf8_tries)
    /\ PvAttempt

PvTryLocal ==
    /\ pv_phase = "reading"
    /\ Len(utf8_tries) < pv_i
    /\ pv_i < Len(PvEncodings)
    /\ PvAttempt

PvTryLatin1 ==
    /\ pv_phase = "reading"
    /\ pv_i = Len(PvEncodings)
    /\ PvAttempt

\* _read_excel without openpyxl: ImportError
PvExcelNoEngine ==
    /\ pv_phase = "idle"
    /\ IsExcelName(pv_name)
    /\ ~pv_openpyxl
    /\ pv_phase' = "raised"
    /\ UNCHANGED <<pv_binary, pv_book, pv_name, pv_n, pv_pyarrow, pv_openpyxl, pv_i, pv_df, pv_head>>
    /\ UNCHANGED PreviewOthers

\* _read_excel: the whole sheet, nrows is not passed on
PvReadExcel ==
    /\ pv_phase = "idle"
    /\ IsExcelName(pv_name)
    /\ pv_openpyxl
    /\ pv_df' = AsStr(pv_book)
    /\ pv_phase' = "read"
    /\ UNCHANGED <<pv_binary, pv_book, pv_name, pv_n, pv_pyarrow, pv_openpyxl, pv_i, pv_head>>
    /\ UNCHANGED PreviewOthers

PreviewReturn ==
    /\ pv_phase = "read"
    /\ pv_head' = HeadDict(pv_df, pv_n)
    /\ pv_phase' = "returned"
    /\ UNCHANGED <<pv_binary, pv_book, pv_name, pv_n, pv_pyarrow, pv_openpyxl, pv_i, pv_df>>
    /\ UNCHANGED PreviewOthers

PreviewNext ==
    \/ PreviewCall
    \/ PvTryUtf8
    \/ PvTryLocal
    \/ PvTryLatin1
    \/ PvExcelNoEngine
    \/ PvReadExcel
    \/ PreviewReturn

PreviewInit == PreviewStart /\ PipelineIdle /\ ResolverIdle /\ NamesIdle /\ InferIdle /\ CombineIdle /\ DiffIdle /\ BatchIdle /\ UmIdle /\ NotesIdle

SpecPreview == PreviewInit /\ [][PreviewNext]_vars

-----------------------------------------------------------------------------
(* Properties of get_preview *)

\* the table of the whole file, as read_file_to_dataframe reads it when no
\* row limit is given: by the first encoding that decodes and parses
RECURSIVE WholeRead(_, _, _)
WholeRead(bytes, pyarrow, i) ==
    IF read_csv(bytes, PvEncodings[i], IF i <= 2 /\ pyarrow THEN "pyarrow" ELSE "c", ",").ok
    THEN read_csv(bytes, PvEncodings[i], IF i <= 2 /\ pyarrow THEN "pyarrow" ELSE "c", ",")
    ELSE IF i = Len(PvEncodings) THEN ReadError("ParserError")
    ELSE WholeRead(bytes, pyarrow, i + 1)

WholeTable ==
    IF IsExcelName(pv_name) THEN Parsed(pv_book) ELSE WholeRead(pv_binary, pv_pyarrow, 1)

FirstRowsOf(table, head, k) ==
    /\ head.columns = table.columns
    /\ Len(head.rows) = k
    /\ \A i \in 1..k :
          \A j \in DOMAIN table.columns :
              SameValue(head.rows[i][j], TextCell(StrOf(table.data[j][i])))

\* C26: get_preview(bytes, n) returns the first min(n, N) data rows of the
\* N-row file, in the order of the file and under all its columns, for a
\* delimited text and for a spreadsheet; the header is not a data row.
C26_PreviewFirstRows ==
    (pv_phase \in {"returned", "raised"} /\ WholeTable.ok /\ (IsExcelName(pv_name) => pv_openpyxl)) =>
        /\ pv_phase = "returned"
        /\ FirstRowsOf(WholeTable.table, pv_head,
                       IF pv_n < NRows(WholeTable.table) THEN pv_n ELSE NRows(WholeTable.table))

-----------------------------------------------------------------------------
(* The loop `for m in mapping` of write_diff_report and of diff_highlight:  *)
(* what each iteration does to the file at the entry's out_file, and where  *)
(* an exception leaves the loop.                                            *)

MaxEntries == 2

OutFiles == <<"out1.xlsx", "out2.xlsx", "out3.xlsx">>

OldSheets == <<"Old">>

EntryColumns == {<<>>, <<ColX>>, <<ColZ>>}

BatchPairs ==
    { <<OneColumn(ColX, <<IntCell(1), IntCell(2)>>), OneColumn(ColX, <<IntCell(1), IntCell(5)>>)>>,
      <<OneColumn(ColX, <<IntCell(1), IntCell(2)>>), OneColumn(ColX, <<IntCell(1), IntCell(2)>>)>>,
      <<OneColumn(ColX, <<IntCell(1)>>), OneColumn(ColY, <<IntCell(1)>>)>> }

BatchMappings ==
    { es \in SeqsUpTo(EntryColumns, MaxEntries) : es # <<>> }

BatchStart ==
    /\ bt_mode \in {"report", "highlight"}
    /\ \E p \in BatchPairs : bt_df1 = p[1] /\ bt_df2 = p[2]
    /\ \E es \in BatchMappings :
          bt_mapping = [k \in DOMAIN es |-> [columns |-> es[k], out_file |-> OutFiles[k]]]
    /\ bt_locked \in SUBSET {OutFiles[k] : k \in 1..MaxEntries}
    /\ bt_m = 1
    /\ bt_pc = "entry"
    /\ bt_error = ""
    /\ bt_files \in [{OutFiles[k] : k \in 1..MaxEntries} -> {<<>>, OldSheets}]

\* selected_columns and out_file of the entry of the iteration
EntrySelected == bt_mapping[bt_m].columns

EntryOutFile == bt_mapping[bt_m].out_file

\* missing: the selected columns that df1 or df2 lacks
MissingIn(a, b, sel) == {i \in DOMAIN sel : ~(HasColumn(a, sel[i]) /\ HasColumn(b, sel[i]))}

\* target_cols of an entry
TargetIn(a, b, sel) ==
    IF sel # <<>> THEN Unique(sel) ELSE Without(a.columns, Range(a.columns) \ Range(b.columns))

\* diffs is not empty
AnyDiff(a, b, cols) ==
    \E j \in DOMAIN cols : \E r \in 1..NRows(a) :
        Differs(ColumnOf(a, cols[j])[r], ColumnOf(b, cols[j])[r])

ReportSheets == <<"DataFrame__1", "DataFrame__2">>

BatchUnchanged == UNCHANGED <<bt_mode, bt_df1, bt_df2, bt_mapping, bt_locked>>

InEntry == bt_m <= Len(bt_mapping)

\* with pd.ExcelWriter(out_file) ...: the two sheets are written first
BtWriteSheets ==
    /\ bt_mode = "report" /\ bt_pc = "entry" /\ InEntry
    /\ EntryOutFile \notin bt_locked
    /\ bt_files' = [bt_files EXCEPT ![EntryOutFile] = ReportSheets]
    /\ bt_pc' = "written"
    /\ UNCHANGED <<bt_m, bt_error>>
    /\ BatchUnchanged
    /\ UNCHANGED BatchOthers

\* the file cannot be written: the OSError of the writer leaves the loop
BtWriteFails ==
    /\ InEntry
    /\ \/ bt_mode = "report" /\ bt_pc = "entry"
       \/ bt_mode = "highlight" /\ bt_pc = "validated"
    /\ EntryOutFile \in bt_locked
    /\ bt_pc' = "raised"
    /\ bt_error' = "OSError"
    /\ UNCHANGED <<bt_m, bt_files>>
    /\ BatchUnchanged
    /\ UNCHANGED BatchOthers

\* where the columns of the entry are checked: after the write in
\* write_diff_report, at the head of the iteration in diff_highlight
AtValidation ==
    /\ InEntry
    /\ \/ bt_mode = "report" /\ bt_pc = "written"
       \/ bt_mode = "highlight" /\ bt_pc = "entry"

\* raise ValueError("columns not found in both files: ...")
BtColumnsNotFound ==
    /\ AtValidation
    /\ MissingIn(bt_df1, bt_df2, EntrySelected) # {}
    /\ bt_pc' = "raised"
    /\ bt_error' = "ValueError"
    /\ UNCHANGED <<bt_m, bt_files>>
    /\ BatchUnchanged
    /\ UNCHANGED BatchOthers

\* raise ValueError("no comparable columns available ...")
BtNoComparable ==
    /\ AtValidation
    /\ MissingIn(bt_df1, bt_df2, EntrySelected) = {}
    /\ TargetIn(bt_df1, bt_df2, EntrySelected) = <<>>
    /\ bt_pc' = "raised"
    /\ bt_error' = "ValueError"
    /\ UNCHANGED <<bt_m, bt_files>>
    /\ BatchUnchanged
    /\ UNCHANGED BatchOthers

EntryValid ==
    /\ MissingIn(bt_df1, bt_df2, EntrySelected) = {}
    /\ TargetIn(bt_df1, bt_df2, EntrySelected) # <<>>

\* write_diff_report, the rest of the iteration: the comparison, wb.save,
\* and the sheet "Diff Summary" when there are diffs
BtReportSaved ==
    /\ bt_mode = "report" /\ AtValidation
    /\ EntryValid
    /\ bt_files' = [bt_files EXCEPT ![EntryOutFile] =
                       IF AnyDiff(bt_df1, bt_df2, TargetIn(bt_df1, bt_df2, EntrySelected))
                       THEN Append(ReportSheets, "Diff Summary") ELSE ReportSheets]
    /\ bt_m' = bt_m + 1
    /\ bt_pc' = "entry"
    /\ UNCHANGED bt_error
    /\ BatchUnchanged
    /\ UNCHANGED BatchOthers

\* diff_highlight: the columns of the entry are accepted
BtValidated ==
    /\ bt_mode = "highlight" /\ AtValidation
    /\ EntryValid
    /\ bt_pc' = "validated"
    /\ UNCHANGED <<bt_m, bt_error, bt_files>>
    /\ BatchUnchanged
    /\ UNCHANGED BatchOthers

\* diff_highlight, the rest of the iteration: combined.to_excel(out_file),
\* the fills, wb.save
BtWriteCombined ==
    /\ bt_mode = "highlight" /\ bt_pc = "validated"
    /\ EntryOutFile \notin bt_locked
    /\ bt_files' = [bt_files EXCEPT ![EntryOutFile] = <<"Sheet1">>]
    /\ bt_m' = bt_m + 1
    /\ bt_pc' = "entry"
    /\ UNCHANGED bt_error
    /\ BatchUnchanged
    /\ UNCHANGED BatchOthers

\* the loop is over: the function returns None
BtReturn ==
    /\ bt_pc = "entry"
    /\ ~InEntry
    /\ bt_pc' = "returned"
    /\ UNCHANGED <<bt_m, bt_error, bt_files>>
    /\ BatchUnchanged
    /\ UNCHANGED BatchOthers

BatchNext ==
    \/ BtWriteSheets
    \/ BtWriteFails
    \/ BtColumnsNotFound
    \/ BtNoComparable
    \/ BtReportSaved
    \/ BtValidated
    \/ BtWriteCombined
    \/ BtReturn

BatchInit == BatchStart /\ PipelineIdle /\ ResolverIdle /\ NamesIdle /\ InferIdle /\ CombineIdle /\ DiffIdle /\ PreviewIdle /\ UmIdle /\ NotesIdle

SpecBatch == BatchInit /\ [][BatchNext]_vars

-----------------------------------------------------------------------------
(* Properties of the loop over the mapping entries *)

BatchOver == bt_pc \in {"returned", "raised"}

\* an entry that by itself can be carried out: its columns are accepted
\* and its file can be written
EntryCanSucceed(k) ==
    /\ MissingIn(bt_df1, bt_df2, bt_mapping[k].columns) = {}
    /\ TargetIn(bt_df1, bt_df2, bt_mapping[k].columns) # <<>>
    /\ bt_mapping[k].out_file \notin bt_locked

\* the file holds an artifact of this call
IsArtifact(content) == content \notin {<<>>, OldSheets}

\* C24: with several mapping entries, the failure of one entry (columns
\* that are not valid, no comparable column, a file that cannot be written)
\* does not keep the later entries from being processed, and the artifacts
\* of the earlier entries stay: when the call is over, every entry that can
\* succeed by itself has its artifact.
C24_EntriesIndependent ==
    BatchOver =>
        \A k \in DOMAIN bt_mapping :
            EntryCanSucceed(k) => IsArtifact(bt_files[bt_mapping[k].out_file])

\* What does hold of the earlier entries: the artifacts of the iterations that were
\* completed are on disk when the call is over, whatever ended it.
EarlierArtifactsStay ==
    BatchOver =>
        \A k \in 1..(bt_m - 1) : IsArtifact(bt_files[bt_mapping[k].out_file])

\* C25: an entry whose column subset names a column that is absent, or
\* leaves no comparable column, is rejected before any work: in report and
\* in highlight mode the file at its out_file is not created and not
\* overwritten.
C25_RejectedBeforeAnyWork ==
    (bt_pc = "raised" /\ bt_error = "ValueError") =>
        ~IsArtifact(bt_files[EntryOutFile])

\* What does hold in highlight mode: diff_highlight rejects the entry
\* before it writes.
HighlightRejectsBeforeWriting ==
    (bt_mode = "highlight" /\ bt_pc = "raised" /\ bt_error = "ValueError") =>
        ~IsArtifact(bt_files[EntryOutFile])

-----------------------------------------------------------------------------
(* UserManager: users.json and sessions.json. Each method is one action of  *)
(* the sequential specification: it loads the file, changes the dict and    *)
(* saves it.                                                                *)

MaxTime == 2

MaxSessions == 2

\* timedelta(hours=24), in units of the clock
SessionHours == 1

\* last_login = None
NoLogin == 0 - 1

Usernames == {"horizon", "fanfan0315"}

Passwords == {"horizon", "yyf"}

\* the users that _create_default_admin writes
DefaultUsers ==
    [u \in Usernames |->
        [password |-> IF u = "horizon" THEN "horizon" ELSE "yyf",
         role |-> IF u = "horizon" THEN "horizon" ELSE "vip1",
         is_active |-> TRUE,
         last_login |-> NoLogin,
         memos |-> <<>>]]

\* d[k] = v
Put(d, k, v) == [x \in DOMAIN d \cup {k} |-> IF x = k THEN v ELSE d[x]]

\* del d[k] for the keys k of K
Drop(d, K) == [x \in DOMAIN d \ K |-> d[x]]

Returned(op, arg, value) == [op |-> op, arg |-> arg, value |-> value]

\* current_time > expires_at
Expired(session, now) == now > session.expires_at

expired_sessions(sessions, now) == {t \in DOMAIN sessions : Expired(sessions[t], now)}

\* sessions.json after _cleanup_expired_sessions
CleanedUp(file, now) == Drop(file, expired_sessions(file, now))

\* sessions.json after create_session: `sessions` is loaded before the
\* cleanup, the cleanup loads and saves the file on its own, and the dict
\* loaded first gets the new token and is saved over the file
SavedByCreate(file, token, username, now) ==
    Put(file, token, [username |-> username, expires_at |-> now + SessionHours])

SessionsStart ==
    /\ um_users = DefaultUsers
    /\ um_sessions = <<>>
    /\ um_now = 0
    /\ um_tokens = 0
    /\ um_ret = Returned("", "", "")
    /\ th_req = <<>>
    /\ th_pc = <<>>
    /\ th_users = <<>>
    /\ th_ok = <<>>

ThreadsUnchanged == UNCHANGED <<th_req, th_pc, th_users, th_ok>>

\* the clock goes on
Tick ==
    /\ um_now < MaxTime
    /\ um_now' = um_now + 1
    /\ UNCHANGED <<um_users, um_sessions, um_tokens, um_ret>>
    /\ ThreadsUnchanged
    /\ UNCHANGED UmOthers

PasswordOk(user, password) == user.password = password

authenticate_user(username, password) ==
    /\ IF username \in DOMAIN um_users
          /\ um_users[username].is_active
          /\ PasswordOk(um_users[username], password)
       THEN /\ um_users' = [um_users EXCEPT ![username].last_login = um_now]
            /\ um_ret' = Returned("authenticate_user", username, "True")
       ELSE /\ um_users' = um_users
            /\ um_ret' = Returned("authenticate_user", username, "False")
    /\ UNCHANGED <<um_sessions, um_now, um_tokens>>
    /\ ThreadsUnchanged
    /\ UNCHANGED UmOthers

AuthenticateUser ==
    \E username \in Usernames \cup {"nobody"} : \E password \in Passwords :
        /\ authenticate_user(username, password)

create_session(username) ==
    /\ um_tokens < MaxSessions
    /\ um_tokens' = um_tokens + 1
    /\ um_sessions' = SavedByCreate(um_sessions, um_tokens + 1, username, um_now)
    /\ um_ret' = Returned("create_session", username, "token")
    /\ UNCHANGED <<um_users, um_now>>
    /\ ThreadsUnchanged
    /\ UNCHANGED UmOthers

CreateSession == \E username \in Usernames : /\ create_session(username)

validate_session(token) ==
    /\ IF token \notin DOMAIN um_sessions
       THEN /\ um_sessions' = um_sessions
            /\ um_ret' = Returned("validate_session", "", "None")
       ELSE IF Expired(um_sessions[token], um_now)
       THEN /\ um_sessions' = Drop(um_sessions, {token})
            /\ um_ret' = Returned("validate_session", um_sessions[token].username, "None")
       ELSE /\ um_sessions' = um_sessions
            /\ um_ret' = Returned("validate_session", um_sessions[token].username,
                                  IF um_sessions[token].username \in DOMAIN um_users
                                  THEN um_sessions[token].username ELSE "None")
    /\ UNCHANGED <<um_users, um_now, um_tokens>>
    /\ ThreadsUnchanged
    /\ UNCHANGED UmOthers

ValidateSession == \E token \in 1..MaxSessions : /\ validate_session(token)

set_active(op, username, active) ==
    /\ IF username \in DOMAIN um_users
       THEN /\ um_users' = [um_users EXCEPT ![username].is_active = active]
            /\ um_ret' = Returned(op, username, "True")
       ELSE /\ um_users' = um_users
            /\ um_ret' = Returned(op, username, "False")
    /\ UNCHANGED <<um_sessions, um_now, um_tokens>>
    /\ ThreadsUnchanged
    /\ UNCHANGED UmOthers

DeactivateUser == \E username \in Usernames : /\ set_active("deactivate_user", username, FALSE)

ActivateUser == \E username \in Usernames : /\ set_active("activate_user", username, TRUE)

logout_user(token) ==
    /\ um_sessions' = Drop(um_sessions, {token})
    /\ um_ret' = Returned("logout_user", "", IF token \in DOMAIN um_sessions THEN "True" ELSE "False")
    /\ UNCHANGED <<um_users, um_now, um_tokens>>
    /\ ThreadsUnchanged
    /\ UNCHANGED UmOthers

LogoutUser == \E token \in 1..MaxSessions : /\ logout_user(token)

SessionsNext ==
    \/ Tick
    \/ AuthenticateUser
    \/ CreateSession
    \/ ValidateSession
    \/ DeactivateUser
    \/ ActivateUser
    \/ LogoutUser

SessionsInit == SessionsStart /\ PipelineIdle /\ ResolverIdle /\ NamesIdle /\ InferIdle /\ CombineIdle /\ DiffIdle /\ PreviewIdle /\ BatchIdle /\ NotesIdle

SpecSessions == SessionsInit /\ [][SessionsNext]_vars

-----------------------------------------------------------------------------
(* Properties of the sessions *)

\* C27: after create_session returns, sessions.json holds the new token and
\* no session whose expires_at is in the past: the cleanup of the expired
\* sessions inside create_session is not undone by the save of the new one.
C27_CreateSessionLeavesNoExpired ==
    [][um_tokens' # um_tokens =>
          /\ um_tokens' \in DOMAIN um_sessions'
          /\ expired_sessions(um_sessions', um_now') = {}]_vars

\* What does hold: the new token is in the file when create_session returns.
NewTokenStored == [][um_tokens' # um_tokens => um_tokens' \in DOMAIN um_sessions']_vars

\* C28: once deactivate_user(u) has succeeded and until activate_user(u),
\* no request is authenticated as u: authenticate_user(u, password) fails,
\* and validate_session returns None for every token of u, also for the
\* tokens created before.
C28_DeactivatedIsNotAuthenticated ==
    \A u \in DOMAIN um_users :
        ~um_users[u].is_active =>
            /\ (um_ret.op = "authenticate_user" /\ um_ret.arg = u) => um_ret.value = "False"
            /\ (um_ret.op = "validate_session" /\ um_ret.arg = u) => um_ret.value = "None"

\* What does hold: authenticate_user refuses a user that is not active.
DeactivatedCannotLogIn ==
    \A u \in DOMAIN um_users :
        (~um_users[u].is_active /\ um_ret.op = "authenticate_user" /\ um_ret.arg = u) =>
            um_ret.value = "False"

-----------------------------------------------------------------------------
(* Requests served at the same time: each one calls _load_users(), changes  *)
(* the dict it got and calls _save_users(). A thread is between the two     *)
(* calls when its th_pc is "loaded"; nothing in the code keeps two threads  *)
(* from being there together.                                               *)

MaxThreads == 2

Threads == 1..MaxThreads

\* the memo every user has at the start
FirstMemo == [id |-> 0, content |-> "old"]

\* requests; the id of a new memo is a uuid4, which no other request draws:
\* the index of the thread stands for it
RequestsOf(t) ==
    UNION { { [op |-> "create_memo", user |-> u, id |-> t, value |-> "text"],
              [op |-> "update_memo", user |-> u, id |-> 0, value |-> "new"],
              [op |-> "authenticate_user", user |-> u, id |-> 0, value |-> DefaultUsers[u].password],
              [op |-> "update_user_role", user |-> u, id |-> 0, value |-> "vip2"] } : u \in Usernames }
    \cup { [op |-> "create_user", user |-> "guest", id |-> 0, value |-> "user"] }

RequestsStart ==
    /\ um_users = [u \in Usernames |-> [DefaultUsers[u] EXCEPT !.memos = <<FirstMemo>>]]
    /\ um_sessions = <<>>
    /\ um_now = 0
    /\ um_tokens = 0
    /\ um_ret = Returned("", "", "")
    /\ th_req \in [Threads -> UNION {RequestsOf(t) : t \in Threads}]
    /\ \A t \in Threads : th_req[t] \in RequestsOf(t)
    /\ th_pc = [t \in Threads |-> "start"]
    /\ th_users = [t \in Threads |-> <<>>]
    /\ th_ok = [t \in Threads |-> FALSE]

StoreUnchanged == UNCHANGED <<um_sessions, um_now, um_tokens, um_ret>>

\* users = user_manager._load_users()
ReqLoad ==
    \E t \in Threads :
        /\ th_pc[t] = "start"
        /\ th_users' = [th_users EXCEPT ![t] = um_users]
        /\ th_pc' = [th_pc EXCEPT ![t] = "loaded"]
        /\ UNCHANGED <<um_users, th_req, th_ok>>
        /\ StoreUnchanged
        /\ UNCHANGED UmOthers

\* the request of thread t ends: with _save_users(users) and success, or
\* with an error and the file as it is
Finish(t, can, users) ==
    /\ um_users' = IF can THEN users ELSE um_users
    /\ th_ok' = [th_ok EXCEPT ![t] = can]
    /\ th_pc' = [th_pc EXCEPT ![t] = "done"]
    /\ UNCHANGED <<th_req, th_users>>
    /\ StoreUnchanged
    /\ UNCHANGED UmOthers

AtSave(t, op) == th_pc[t] = "loaded" /\ th_req[t].op = op

\* the position of the memo with the id in the list, 0 if it has none
MemoIndex(memos, id) ==
    IF \E i \in DOMAIN memos : memos[i].id = id
    THEN CHOOSE i \in DOMAIN memos : memos[i].id = id
    ELSE 0

\* user['memos'].append(memo)
WithMemo(users, r) ==
    [users EXCEPT ![r.user].memos = Append(@, [id |-> r.id, content |-> r.value])]

\* memo['content'] = data['content']
WithContent(users, r) ==
    [users EXCEPT ![r.user].memos[MemoIndex(users[r.user].memos, r.id)].content = r.value]

ReqCreateMemo ==
    \E t \in Threads :
        /\ AtSave(t, "create_memo")
        /\ Finish(t, th_req[t].user \in DOMAIN th_users[t],
                  IF th_req[t].user \in DOMAIN th_users[t]
                  THEN WithMemo(th_users[t], th_req[t]) ELSE th_users[t])

ReqUpdateMemo ==
    \E t \in Threads :
        /\ AtSave(t, "update_memo")
        /\ Finish(t, /\ th_req[t].user \in DOMAIN th_users[t]
                     /\ MemoIndex(th_users[t][th_req[t].user].memos, th_req[t].id) # 0,
                  IF /\ th_req[t].user \in DOMAIN th_users[t]
                     /\ MemoIndex(th_users[t][th_req[t].user].memos, th_req[t].id) # 0
                  THEN WithContent(th_users[t], th_req[t]) ELSE th_users[t])

\* authenticate_user: user['last_login'] = now
ReqAuthenticate ==
    \E t \in Threads :
        /\ AtSave(t, "authenticate_user")
        /\ Finish(t, /\ th_req[t].user \in DOMAIN th_users[t]
                     /\ th_users[t][th_req[t].user].is_active
                     /\ PasswordOk(th_users[t][th_req[t].user], th_req[t].value),
                  IF th_req[t].user \in DOMAIN th_users[t]
                  THEN [th_users[t] EXCEPT ![th_req[t].user].last_login = um_now]
                  ELSE th_users[t])

\* update_user_role: users[username]['role'] = new_role
ReqUpdateRole ==
    \E t \in Threads :
        /\ AtSave(t, "update_user_role")
        /\ Finish(t, th_req[t].user \in DOMAIN th_users[t],
                  IF th_req[t].user \in DOMAIN th_users[t]
                  THEN [th_users[t] EXCEPT ![th_req[t].user].role = th_req[t].value]
                  ELSE th_users[t])

\* create_user: users[username] = user_data
ReqCreateUser ==
    \E t \in Threads :
        /\ AtSave(t, "create_user")
        /\ Finish(t, th_req[t].user \notin DOMAIN th_users[t],
                  Put(th_users[t], th_req[t].user,
                      [password |-> "pw", role |-> th_req[t].value, is_active |-> TRUE,
                       last_login |-> NoLogin, memos |-> <<>>]))

RequestsNext ==
    \/ ReqLoad
    \/ ReqCreateMemo
    \/ ReqUpdateMemo
    \/ ReqAuthenticate
    \/ ReqUpdateRole
    \/ ReqCreateUser

RequestsInit == RequestsStart /\ PipelineIdle /\ ResolverIdle /\ NamesIdle /\ InferIdle /\ CombineIdle /\ DiffIdle /\ PreviewIdle /\ BatchIdle /\ NotesIdle

SpecRequests == RequestsInit /\ [][RequestsNext]_vars

-----------------------------------------------------------------------------
(* Properties of the requests served at the same time *)

\* what a request writes: the user, the field and, for a memo, its id
Touched(r) ==
    <<r.user,
      IF r.op \in {"create_memo", "update_memo"} THEN "memos"
      ELSE IF r.op = "authenticate_user" THEN "last_login"
      ELSE IF r.op = "update_user_role" THEN "role" ELSE "user",
      r.id>>

\* the change of the request is in the file
EffectIn(users, r) ==
    /\ r.user \in DOMAIN users
    /\ r.op \in {"create_memo", "update_memo"} =>
          \E i \in DOMAIN users[r.user].memos :
              users[r.user].memos[i] = [id |-> r.id, content |-> r.value]
    /\ r.op = "authenticate_user" => users[r.user].last_login = um_now
    /\ r.op = "update_user_role" => users[r.user].role = r.value

AllSucceeded == \A t \in DOMAIN th_pc : th_pc[t] = "done" /\ th_ok[t]

\* C29: no update of users.json is lost when requests interleave: when the
\* requests that ran at the same time have all reported success, and no two
\* of them write the same field, the file holds the change of each.
C29_NoLostUpdate ==
    (/\ th_pc # <<>>
     /\ AllSucceeded
     /\ \A t1 \in DOMAIN th_req : \A t2 \in DOMAIN th_req :
           t1 # t2 => Touched(th_req[t1]) # Touched(th_req[t2])) =>
        \A t \in DOMAIN th_req : EffectIn(um_users, th_req[t])

\* What does hold: the request that saved last has its change in the file.
LastSaveStays ==
    [][\A t \in DOMAIN th_ok : (th_ok'[t] /\ ~th_ok[t]) => EffectIn(um_users', th_req[t])]_vars

-----------------------------------------------------------------------------
(* NotesManager: one JSON file per user, holding the notes and the list of  *)
(* the categories. Each method loads the file of the user (the defaults if  *)
(* there is none), changes the dict and saves it.                           *)

MaxNotes == 1

Diary == <<"d", "i", "a", "r", "y">>

\* the four categories of a user without a file
DefaultCategories == <<Diary, <<"w", "o", "r", "k">>, <<"i", "d", "e", "a">>, <<"t", "o", "d", "o">>>>

\* the categories passed by the callers
NoteCategories == {Diary, <<" ", "n">>}

DefaultNotes == [notes |-> <<>>, categories |-> DefaultCategories]

_load_user_notes(username) ==
    IF username \in DOMAIN nt_files THEN nt_files[username] ELSE DefaultNotes

\* if category not in notes_data['categories']: ...append(category)
WithCategory(categories, category) ==
    IF category \in Range(categories) THEN categories ELSE Append(categories, category)

\* list.remove(x): without the first x
RECURSIVE RemoveFirst(_, _)
RemoveFirst(seq, x) ==
    IF seq = <<>> THEN <<>>
    ELSE IF seq[1] = x THEN Tail(seq)
    ELSE <<seq[1]>> \o RemoveFirst(Tail(seq), x)

InUse_never(notes_data, category) == FALSE

\* notes_using_category is not empty
InUse(notes_data, category) ==
    \E id \in DOMAIN notes_data.notes : notes_data.notes[id].category = category

NotesStart ==
    /\ nt_files = <<>>
    /\ nt_ids = 0
    /\ nt_ret = [op |-> "", ok |-> FALSE]

\* the call ends: with _save_user_notes and success, or without
NotesDone(op, username, ok, notes_data) ==
    /\ nt_files' = IF ok THEN Put(nt_files, username, notes_data) ELSE nt_files
    /\ nt_ret' = [op |-> op, ok |-> ok]
    /\ UNCHANGED NotesOthers

CreateNote ==
    \E username \in Usernames : \E category \in NoteCategories :
        /\ nt_ids < MaxNotes
        /\ nt_ids' = nt_ids + 1
        /\ NotesDone("create_note", username, TRUE,
                     [notes |-> Put(_load_user_notes(username).notes, nt_ids + 1, [category |-> category]),
                      categories |-> WithCategory(_load_user_notes(username).categories, category)])

\* update_note(username, note_id, category=...): category None leaves it
UpdateNote ==
    \E username \in Usernames : \E note_id \in 1..MaxNotes :
        \E category \in {<<>>} \cup {<<c>> : c \in NoteCategories} :
            /\ UNCHANGED nt_ids
            /\ NotesDone("update_note", username,
                         note_id \in DOMAIN _load_user_notes(username).notes,
                         IF category = <<>> THEN _load_user_notes(username)
                         ELSE [notes |-> Put(_load_user_notes(username).notes, note_id, [category |-> category[1]]),
                               categories |-> WithCategory(_load_user_notes(username).categories, category[1])])

DeleteNote ==
    \E username \in Usernames : \E note_id \in 1..MaxNotes :
        /\ UNCHANGED nt_ids
        /\ NotesDone("delete_note", username,
                     note_id \in DOMAIN _load_user_notes(username).notes,
                     [_load_user_notes(username) EXCEPT !.notes = Drop(@, {note_id})])

\* add_category: the name is stripped; an empty or a known name is refused
AddCategory ==
    \E username \in Usernames : \E category \in NoteCategories \cup {<<" ">>} :
        /\ UNCHANGED nt_ids
        /\ NotesDone("add_category", username,
                     /\ Strip(category) # <<>>
                     /\ Strip(category) \notin Range(_load_user_notes(username).categories),
                     [_load_user_notes(username) EXCEPT !.categories = Append(@, Strip(category))])

\* remove_category: an unknown name and a name that a note uses are refused
RemoveCategory ==
    \E username \in Usernames : \E category \in NoteCategories \cup {<<"n">>} :
        /\ UNCHANGED nt_ids
        /\ NotesDone("remove_category", username,
                     /\ category \in Range(_load_user_notes(username).categories)
                     /\ ~InUse(_load_user_notes(username), category),
                     [_load_user_notes(username) EXCEPT !.categories = RemoveFirst(@, category)])

NotesNext ==
    \/ CreateNote
    \/ UpdateNote
    \/ DeleteNote
    \/ AddCategory
    \/ RemoveCategory

NotesInit == NotesStart /\ PipelineIdle /\ ResolverIdle /\ NamesIdle /\ InferIdle /\ CombineIdle /\ DiffIdle /\ PreviewIdle /\ BatchIdle /\ UmIdle

SpecNotes == NotesInit /\ [][NotesNext]_vars

-----------------------------------------------------------------------------
(* Properties of the notes *)

NoDuplicate(seq) == \A i \in DOMAIN seq : \A j \in DOMAIN seq : seq[i] = seq[j] => i = j

\* C30: for each user, after any sequence of create_note, update_note,
\* delete_note, add_category and remove_category, the category of every
\* stored note is in the category list of the user, and the list has no
\* duplicate.
C30_NoteCategoriesListed ==
    \A username \in DOMAIN nt_files :
        /\ \A id \in DOMAIN nt_files[username].notes :
              nt_files[username].notes[id].category \in Range(nt_files[username].categories)
        /\ NoDuplicate(nt_files[username].categories)

\* remove_category has just refused a category that a note uses, a category
\* added by create_note or update_note
C30_Witness ==
    /\ nt_ret.op = "remove_category"
    /\ ~nt_ret.ok
    /\ \E username \in DOMAIN nt_files :
          /\ \E id \in DOMAIN nt_files[username].notes :
                nt_files[username].notes[id].category = <<" ", "n">>
          /\ <<"n">> \in Range(nt_files[username].categories)
          /\ Diary \notin Range(nt_files[username].categories)

====
